---- MODULE Spec2Model ----
(***************************************************************************)
(* Fiscal calculation engine of BillsFac (frontend/src/lib):               *)
(* socialContributions.ts and taxDeclarations.ts, with the invoice         *)
(* numbering of invoices.ts and the scheduled notifications of             *)
(* notifications.ts.                                                       *)
(*                                                                         *)
(* JavaScript numbers are modelled as exact rationals [n, d] in lowest     *)
(* terms (d > 0); Infinity is the pair [1, 0].  Every product, sum and     *)
(* comparison of the source is carried out on these values in the order    *)
(* the source carries it out.                                              *)
(***************************************************************************)
EXTENDS Integers, Sequences, FiniteSets, TLC

(***************************************************************************)
(* Number arithmetic                                                       *)
(***************************************************************************)
Abs(x) == IF x < 0 THEN 0 - x ELSE x

RECURSIVE GCD(_, _)
GCD(a, b) == IF b = 0 THEN a ELSE GCD(b, a % b)

LCM(a, b) == (a \div GCD(a, b)) * b

Norm(n, d) ==
    LET g == GCD(Abs(n), d)
    IN  [n |-> n \div g, d |-> d \div g]

Num(i) == [n |-> i, d |-> 1]

Dec(n, d) == Norm(n, d)

Infinity == [n |-> 1, d |-> 0]

RMul(a, b) ==
    LET g1 == GCD(Abs(a.n), b.d)
        g2 == GCD(Abs(b.n), a.d)
    IN  [n |-> (a.n \div g1) * (b.n \div g2),
         d |-> (a.d \div g2) * (b.d \div g1)]

RAdd(a, b) ==
    LET l == LCM(a.d, b.d)
    IN  Norm(a.n * (l \div a.d) + b.n * (l \div b.d), l)

RSub(a, b) == RAdd(a, [n |-> 0 - b.n, d |-> b.d])

RDiv(a, b) ==
    RMul(a, IF b.n < 0 THEN [n |-> 0 - b.d, d |-> 0 - b.n]
                       ELSE [n |-> b.d, d |-> b.n])

RLt(a, b) ==
    IF a = Infinity THEN FALSE
    ELSE IF b = Infinity THEN TRUE
    ELSE LET l == LCM(a.d, b.d)
         IN  a.n * (l \div a.d) < b.n * (l \div b.d)

RLeq(a, b) == a = b \/ RLt(a, b)

RMin(a, b) == IF RLt(b, a) THEN b ELSE a

(***************************************************************************)
(* Bounds of the model                                                     *)
(***************************************************************************)
MaxRevenueSteps == 16
MaxSimLen == 2
MaxHalfParts == 6
MaxSurface == 2
MaxRuns == 2
MaxTargetId == 1
MaxTime == 1

ActivityTypes == {"services", "commerce", "liberal"}

(***************************************************************************)
(* Rate tables (socialContributions.ts)                                    *)
(***************************************************************************)
SOCIAL_CONTRIBUTION_RATES_2024 ==
    [services |->
        [maladie |-> Dec(65, 1000),
         retraite_base |-> Dec(1175, 10000),
         retraite_complementaire |-> Dec(7, 1000),
         invalidite_deces |-> Dec(48, 10000),
         csg_crds |-> Dec(262, 10000),
         formation_professionnelle |-> Dec(25, 10000),
         total |-> Dec(221, 1000)],
     commerce |->
        [maladie |-> Dec(65, 1000),
         retraite_base |-> Dec(1175, 10000),
         retraite_complementaire |-> Dec(7, 1000),
         invalidite_deces |-> Dec(48, 10000),
         csg_crds |-> Dec(262, 10000),
         formation_professionnelle |-> Dec(11, 10000),
         total |-> Dec(1286, 10000)],
     liberal |->
        [maladie |-> Dec(65, 1000),
         retraite_base |-> Dec(1175, 10000),
         retraite_complementaire |-> Dec(7, 1000),
         invalidite_deces |-> Dec(48, 10000),
         csg_crds |-> Dec(262, 10000),
         formation_professionnelle |-> Dec(25, 10000),
         total |-> Dec(221, 1000)]]

FRANCHISE_THRESHOLDS_2024 ==
    [services |-> Num(77700), commerce |-> Num(188700), liberal |-> Num(77700)]

(***************************************************************************)
(* A call either returns a value or throws.                                *)
(***************************************************************************)
Return(v) == [ok |-> TRUE, value |-> v]

Throw(e) == [ok |-> FALSE, error |-> e]

\* new Error(`Chiffre d'affaires dépassant le seuil de ${threshold}€ pour ${activityType}`)
FranchiseError(threshold, activityType) ==
    [message |-> "Chiffre d'affaires depassant le seuil",
     threshold |-> threshold,
     activityType |-> activityType]

\* variant: revenue above the threshold is clamped to it instead of throwing
calculateSocialContributions_clamped(revenue, activityType, year, today) ==
    LET rates == SOCIAL_CONTRIBUTION_RATES_2024[activityType]
        threshold == FRANCHISE_THRESHOLDS_2024[activityType]
        clamped == RMin(revenue, threshold)
    IN  Return([revenue |-> clamped,
                activity_type |-> activityType,
                rates |-> rates,
                contributions |->
                    [maladie |-> RMul(clamped, rates.maladie),
                     retraite_base |-> RMul(clamped, rates.retraite_base),
                     retraite_complementaire |->
                         RMul(clamped, rates.retraite_complementaire),
                     invalidite_deces |-> RMul(clamped, rates.invalidite_deces),
                     csg_crds |-> RMul(clamped, rates.csg_crds),
                     formation_professionnelle |->
                         RMul(clamped, rates.formation_professionnelle),
                     total |-> RMul(clamped, rates.total)],
                net_revenue |-> RSub(clamped, RMul(clamped, rates.total)),
                quarter |-> (today.m + 2) \div 3,
                year |-> year])

(***************************************************************************)
(* calculateSocialContributions(revenue, activityType, year); today is the *)
(* local date read by new Date() inside the function.                      *)
(***************************************************************************)
QuarterLabel(today) == (today.m + 2) \div 3

calculateSocialContributions(revenue, activityType, year, today) ==
    LET rates == SOCIAL_CONTRIBUTION_RATES_2024[activityType]
        threshold == FRANCHISE_THRESHOLDS_2024[activityType]
        contributions ==
            [maladie |-> RMul(revenue, rates.maladie),
             retraite_base |-> RMul(revenue, rates.retraite_base),
             retraite_complementaire |-> RMul(revenue, rates.retraite_complementaire),
             invalidite_deces |-> RMul(revenue, rates.invalidite_deces),
             csg_crds |-> RMul(revenue, rates.csg_crds),
             formation_professionnelle |-> RMul(revenue, rates.formation_professionnelle),
             total |-> RMul(revenue, rates.total)]
    IN  IF RLt(threshold, revenue)
        THEN Throw(FranchiseError(threshold, activityType))
        ELSE Return([revenue |-> revenue,
                     activity_type |-> activityType,
                     rates |-> rates,
                     contributions |-> contributions,
                     net_revenue |-> RSub(revenue, contributions.total),
                     quarter |-> QuarterLabel(today),
                     year |-> year])

(***************************************************************************)
(* calculateContributionsWithACRE(revenue, activityType, acreYear)         *)
(***************************************************************************)
\* variant: the schedule read backwards (25% the first year, 75% the third)
ReductionRate_reversed(acreYear) ==
    CASE acreYear = 1 -> Dec(25, 100)
      [] acreYear = 2 -> Dec(50, 100)
      [] acreYear = 3 -> Dec(75, 100)
      [] OTHER -> Num(0)

ReductionRate(acreYear) ==
    CASE acreYear = 1 -> Dec(75, 100)
      [] acreYear = 2 -> Dec(50, 100)
      [] acreYear = 3 -> Dec(25, 100)
      [] OTHER -> Num(0)

\* variant: net_revenue is left as the standard calculation derived it
calculateContributionsWithACRE_unreducedNet(revenue, activityType, acreYear, today) ==
    LET standardCalculation ==
            calculateSocialContributions(revenue, activityType, today.y, today)
        std == standardCalculation.value
        keep == RSub(Num(1), ReductionRate(acreYear))
    IN  IF ~standardCalculation.ok
        THEN standardCalculation
        ELSE Return([std EXCEPT
                 !.contributions =
                     [f \in DOMAIN std.contributions |->
                         RMul(std.contributions[f], keep)]])

calculateContributionsWithACRE(revenue, activityType, acreYear, today) ==
    LET reductionRate == ReductionRate(acreYear)
        standardCalculation ==
            calculateSocialContributions(revenue, activityType, today.y, today)
        std == standardCalculation.value
        keep == RSub(Num(1), reductionRate)
        reducedContributions ==
            [maladie |-> RMul(std.contributions.maladie, keep),
             retraite_base |-> RMul(std.contributions.retraite_base, keep),
             retraite_complementaire |->
                 RMul(std.contributions.retraite_complementaire, keep),
             invalidite_deces |-> RMul(std.contributions.invalidite_deces, keep),
             csg_crds |-> RMul(std.contributions.csg_crds, keep),
             formation_professionnelle |->
                 RMul(std.contributions.formation_professionnelle, keep),
             total |-> RMul(std.contributions.total, keep)]
    IN  IF ~standardCalculation.ok
        THEN standardCalculation
        ELSE Return([std EXCEPT !.contributions = reducedContributions,
                                !.net_revenue = RSub(revenue, reducedContributions.total)])

(***************************************************************************)
(* simulateContributions(revenues, activityType): revenues.map(...); the   *)
(* first throwing element aborts the whole map.                            *)
(***************************************************************************)
NaN == [n |-> 0, d |-> 0]

SimulationRow(revenue, calculation) ==
    [revenue |-> revenue,
     contributions |-> calculation.contributions.total,
     net |-> calculation.net_revenue,
     rate |-> IF revenue.n = 0 THEN NaN
              ELSE RMul(RDiv(calculation.contributions.total, revenue), Num(100))]

RECURSIVE SimulateFrom(_, _, _, _, _)
SimulateFrom(revenues, i, activityType, today, acc) ==
    IF i > Len(revenues) THEN Return(acc)
    ELSE LET calculation ==
                 calculateSocialContributions(revenues[i], activityType, today.y, today)
         IN  IF ~calculation.ok THEN calculation
             ELSE SimulateFrom(revenues, i + 1, activityType, today,
                               Append(acc, SimulationRow(revenues[i], calculation.value)))

simulateContributions(revenues, activityType, today) ==
    SimulateFrom(revenues, 1, activityType, today, <<>>)

(***************************************************************************)
(* Rate tables (taxDeclarations.ts)                                        *)
(***************************************************************************)
MICRO_ABATTEMENT_RATES ==
    [services |-> Dec(50, 100), commerce |-> Dec(29, 100), liberal |-> Dec(34, 100)]

INCOME_TAX_BRACKETS_2024 ==
    << [min |-> Num(0),      max |-> Num(11294),  rate |-> Dec(0, 100)],
       [min |-> Num(11294),  max |-> Num(28797),  rate |-> Dec(11, 100)],
       [min |-> Num(28797),  max |-> Num(82341),  rate |-> Dec(30, 100)],
       [min |-> Num(82341),  max |-> Num(177106), rate |-> Dec(41, 100)],
       [min |-> Num(177106), max |-> Infinity,    rate |-> Dec(45, 100)] >>

CFE_THRESHOLDS ==
    [exemption_revenue |-> Num(5000),
     minimum_base |-> Num(227),
     maximum_base |-> Num(7000)]

(***************************************************************************)
(* calculateIncomeTax(revenue, activityType, parts)                        *)
(***************************************************************************)
\* variant: the loop stops only when taxableIncome is below bracket.min
BracketReached_inclusive(taxableIncome, bracket) ==
    RLeq(bracket.min, taxableIncome)

\* the loop goes on into a bracket: not (taxableIncome <= bracket.min)
BracketReached(taxableIncome, bracket) ==
    ~RLeq(taxableIncome, bracket.min)

\* variant: the operands of the subtraction are swapped
TaxableAmount_swapped(taxableIncome, bracket) ==
    RSub(bracket.min, RMin(taxableIncome, bracket.max))

\* variant: the unit at bracket.min is counted in the bracket as well
TaxableAmount_inclusive(taxableIncome, bracket) ==
    RAdd(RSub(RMin(taxableIncome, bracket.max), bracket.min), Num(1))

\* Math.min(taxableIncome, bracket.max) - bracket.min
TaxableAmount(taxableIncome, bracket) ==
    RSub(RMin(taxableIncome, bracket.max), bracket.min)

\* the for loop over INCOME_TAX_BRACKETS_2024, from bracket i on, with the
\* running taxBrackets list and totalTax
RECURSIVE BracketWalk(_, _, _, _)
BracketWalk(taxableIncome, i, taxBrackets, totalTax) ==
    IF i > Len(INCOME_TAX_BRACKETS_2024)
    THEN [tax_brackets |-> taxBrackets, totalTax |-> totalTax]
    ELSE LET bracket == INCOME_TAX_BRACKETS_2024[i]
             taxableAmount == TaxableAmount(taxableIncome, bracket)
             taxAmount == RMul(taxableAmount, bracket.rate)
         IN  IF ~BracketReached(taxableIncome, bracket)
             THEN [tax_brackets |-> taxBrackets, totalTax |-> totalTax]
             ELSE BracketWalk(taxableIncome, i + 1,
                              Append(taxBrackets,
                                     [min |-> bracket.min, max |-> bracket.max,
                                      rate |-> bracket.rate, amount |-> taxAmount]),
                              RAdd(totalTax, taxAmount))

\* variant: the taxable income is multiplied by parts instead of divided
calculateIncomeTax_multiplied(revenue, activityType, parts) ==
    LET abattement == RMul(revenue, MICRO_ABATTEMENT_RATES[activityType])
        taxableIncome == RMul(RSub(revenue, abattement), parts)
        walk == BracketWalk(taxableIncome, 1, <<>>, Num(0))
    IN  [revenue |-> revenue,
         expenses |-> Num(0),
         net_result |-> revenue,
         activity_type |-> activityType,
         regime |-> "micro",
         abattement |-> abattement,
         taxable_income |-> taxableIncome,
         tax_brackets |-> walk.tax_brackets,
         total_tax |-> RMul(walk.totalTax, parts)]

\* variant: the bracket sum is not multiplied back by parts
calculateIncomeTax_perPart(revenue, activityType, parts) ==
    LET abattement == RMul(revenue, MICRO_ABATTEMENT_RATES[activityType])
        taxableIncome == RDiv(RSub(revenue, abattement), parts)
        walk == BracketWalk(taxableIncome, 1, <<>>, Num(0))
    IN  [revenue |-> revenue,
         expenses |-> Num(0),
         net_result |-> revenue,
         activity_type |-> activityType,
         regime |-> "micro",
         abattement |-> abattement,
         taxable_income |-> taxableIncome,
         tax_brackets |-> walk.tax_brackets,
         total_tax |-> walk.totalTax]

calculateIncomeTax(revenue, activityType, parts) ==
    LET abattementRate == MICRO_ABATTEMENT_RATES[activityType]
        abattement == RMul(revenue, abattementRate)
        taxableIncome == RDiv(RSub(revenue, abattement), parts)
        walk == BracketWalk(taxableIncome, 1, <<>>, Num(0))
    IN  [revenue |-> revenue,
         expenses |-> Num(0),
         net_result |-> revenue,
         activity_type |-> activityType,
         regime |-> "micro",
         abattement |-> abattement,
         taxable_income |-> taxableIncome,
         tax_brackets |-> walk.tax_brackets,
         total_tax |-> RMul(walk.totalTax, parts)]

(***************************************************************************)
(* calculateCFE(revenue, activityType, commune, surfaceM2?)                *)
(***************************************************************************)
Undefined == [n |-> 0, d |-> 0 - 1]

\* JavaScript truthiness of an optional number: undefined, 0 and NaN are falsy
Truthy(x) == x # Undefined /\ x # NaN /\ x.n # 0

CFE_TAX_RATE == Dec(25, 100)

\* variant: the surface branch is taken for every supplied surface, 0 included
CFEBaseAmount_supplied(revenue, surfaceM2) ==
    IF surfaceM2 # Undefined
    THEN RMin(RMul(surfaceM2, Num(16)), CFE_THRESHOLDS.maximum_base)
    ELSE IF RLt(Num(32600), revenue)
         THEN RMin(RMul(revenue, Dec(5, 1000)), CFE_THRESHOLDS.maximum_base)
         ELSE CFE_THRESHOLDS.minimum_base

CFEBaseAmount(revenue, surfaceM2) ==
    IF Truthy(surfaceM2)
    THEN RMin(RMul(surfaceM2, Num(16)), CFE_THRESHOLDS.maximum_base)
    ELSE IF RLt(Num(32600), revenue)
         THEN RMin(RMul(revenue, Dec(5, 1000)), CFE_THRESHOLDS.maximum_base)
         ELSE CFE_THRESHOLDS.minimum_base

\* variant: the exemption also covers a revenue of exactly 5000
calculateCFE_inclusive(revenue, activityType, commune, surfaceM2) ==
    LET baseAmount == CFEBaseAmount(revenue, surfaceM2)
    IN  IF RLeq(revenue, CFE_THRESHOLDS.exemption_revenue)
        THEN [revenue |-> revenue,
              activity_type |-> activityType,
              commune |-> commune,
              surface_m2 |-> surfaceM2,
              is_exempt |-> TRUE,
              exemption_reason |-> "Chiffre d'affaires inferieur a 5 000",
              base_amount |-> Num(0),
              tax_rate |-> Num(0),
              total_cfe |-> Num(0)]
        ELSE [revenue |-> revenue,
              activity_type |-> activityType,
              commune |-> commune,
              surface_m2 |-> surfaceM2,
              is_exempt |-> FALSE,
              exemption_reason |-> "undefined",
              base_amount |-> baseAmount,
              tax_rate |-> CFE_TAX_RATE,
              total_cfe |-> RMul(baseAmount, CFE_TAX_RATE)]

calculateCFE(revenue, activityType, commune, surfaceM2) ==
    LET isExempt == RLt(revenue, CFE_THRESHOLDS.exemption_revenue)
        baseAmount == CFEBaseAmount(revenue, surfaceM2)
        taxRate == CFE_TAX_RATE
        totalCFE == RMul(baseAmount, taxRate)
    IN  IF isExempt
        THEN [revenue |-> revenue,
              activity_type |-> activityType,
              commune |-> commune,
              surface_m2 |-> surfaceM2,
              is_exempt |-> TRUE,
              exemption_reason |-> "Chiffre d'affaires inferieur a 5 000",
              base_amount |-> Num(0),
              tax_rate |-> Num(0),
              total_cfe |-> Num(0)]
        ELSE [revenue |-> revenue,
              activity_type |-> activityType,
              commune |-> commune,
              surface_m2 |-> surfaceM2,
              is_exempt |-> FALSE,
              exemption_reason |-> "undefined",
              base_amount |-> baseAmount,
              tax_rate |-> taxRate,
              total_cfe |-> totalCFE]

(***************************************************************************)
(* Dates.  A calendar date (the 'YYYY-MM-DD' strings of the store and the  *)
(* local midnight of a JavaScript Date) is a record [y, m, d].             *)
(***************************************************************************)
Date(y, m, d) == [y |-> y, m |-> m, d |-> d]

IsLeap(y) == (y % 4 = 0 /\ y % 100 # 0) \/ y % 400 = 0

DaysInMonth(y, m) ==
    CASE m \in {4, 6, 9, 11} -> 30
      [] m = 2 -> IF IsLeap(y) THEN 29 ELSE 28
      [] OTHER -> 31

PrevDay(dt) ==
    IF dt.d > 1 THEN Date(dt.y, dt.m, dt.d - 1)
    ELSE IF dt.m > 1 THEN Date(dt.y, dt.m - 1, DaysInMonth(dt.y, dt.m - 1))
    ELSE Date(dt.y - 1, 12, 31)

NextDay(dt) ==
    IF dt.d < DaysInMonth(dt.y, dt.m) THEN Date(dt.y, dt.m, dt.d + 1)
    ELSE IF dt.m < 12 THEN Date(dt.y, dt.m + 1, 1)
    ELSE Date(dt.y + 1, 1, 1)

\* order of 'YYYY-MM-DD' strings / DATE columns
DateLt(a, b) ==
    \/ a.y < b.y
    \/ a.y = b.y /\ a.m < b.m
    \/ a.y = b.y /\ a.m = b.m /\ a.d < b.d

DateLeq(a, b) == a = b \/ DateLt(a, b)

\* new Date(year, monthIndex, day): local midnight; month indices past 11
\* roll into the next year and day 0 is the last day of the previous month
JSDate(year, monthIndex, day) ==
    LET first == Date(year + (monthIndex \div 12), (monthIndex % 12) + 1, 1)
    IN  IF day = 0 THEN PrevDay(first) ELSE Date(first.y, first.m, day)

\* date.toISOString().split('T')[0] of a local midnight: the UTC calendar
\* date of that instant, the previous day when local time is ahead of UTC
ISODate(local, zone) == IF zone > 0 THEN PrevDay(local) ELSE local

\* `${year}-${month.toString().padStart(2, '0')}-01`
FirstOfMonth(year, month) == Date(year, month, 1)

(***************************************************************************)
(* checkACREEligibility(creationDate, hasReceivedACRE)                     *)
(* A Date object is an instant: a local calendar date and a time of day.   *)
(***************************************************************************)
Instant(date, t) == [date |-> date, t |-> t]

\* variant: the comparison is strict
InstantLeq_strict(a, b) ==
    DateLt(a.date, b.date) \/ (a.date = b.date /\ a.t < b.t)

\* a <= b on Date objects (their time values are compared)
InstantLeq(a, b) ==
    DateLt(a.date, b.date) \/ (a.date = b.date /\ a.t <= b.t)

\* date.setFullYear(year): month, day and time of day are kept; a day the
\* month does not have in that year rolls over into the next month
setFullYear(instant, year) ==
    LET dt == instant.date
        days == DaysInMonth(year, dt.m)
    IN  IF dt.d > days
        THEN Instant(Date(year, dt.m + 1, dt.d - days), instant.t)
        ELSE Instant(Date(year, dt.m, dt.d), instant.t)

ACRE_REDUCED_RATES ==
    [maladie |-> Dec(325, 10000),
     retraite_base |-> Dec(5875, 100000),
     retraite_complementaire |-> Dec(35, 10000),
     invalidite_deces |-> Dec(24, 10000),
     csg_crds |-> Dec(131, 10000),
     formation_professionnelle |-> Dec(125, 100000),
     total |-> Dec(1105, 10000)]

\* a property the returned object does not have reads as undefined
checkACREEligibility(creationDate, hasReceivedACRE, today) ==
    LET threeYearsAfterCreation == setFullYear(creationDate, creationDate.date.y + 3)
        eligible == ~hasReceivedACRE /\ InstantLeq(today, threeYearsAfterCreation)
    IN  IF eligible
        THEN [eligible |-> TRUE,
              expiryDate |-> threeYearsAfterCreation,
              reducedRates |-> ACRE_REDUCED_RATES]
        ELSE [eligible |-> FALSE,
              expiryDate |-> Undefined,
              reducedRates |-> Undefined]

(***************************************************************************)
(* Inputs of the calculators                                               *)
(***************************************************************************)
\* the values at and next to every threshold of the rate tables
BoundaryRevenues ==
    {0 - 1, 0, 1, 4999, 5000, 5001, 22588, 30000, 32600, 32601, 57594,
     77699, 77700, 77701, 80000, 164682, 188700, 188701, 354212}

Revenues ==
    {Num(r) : r \in BoundaryRevenues}
        \cup {Num(k * 25000) : k \in 0..MaxRevenueSteps}
        \cup {Dec(9999, 2)}

SimRevenues == {Num(0), Num(30000), Num(77700), Num(80000), Num(188701)}

SimInputs == UNION {[1..len -> SimRevenues] : len \in 0..MaxSimLen}

PartsValues == {Dec(k, 2) : k \in 2..MaxHalfParts}

AcreYears == {1, 2, 3}

Communes == {"Paris", "Lyon"}

Surfaces ==
    {Undefined}
        \cup {Num(s) : s \in {0 - 1, 14, 15, 437, 438}}
        \cup {Num(s) : s \in 0..MaxSurface}

\* local dates at which a calculator is called
CalcDates == {[y |-> 2024, m |-> 3, d |-> 31], [y |-> 2025, m |-> 10, d |-> 1]}

\* times of day: midnight and later in the day
TimesOfDay == {0, 1}

CreationDates ==
    {Instant(dt, t) : dt \in {Date(2020, 2, 29), Date(2021, 4, 29), Date(2021, 4, 30)},
                      t \in TimesOfDay}

\* the instants at which checkACREEligibility is called
AcreTodays ==
    {Instant(dt, t) : dt \in {Date(2023, 2, 28), Date(2023, 3, 1), Date(2023, 3, 2),
                              Date(2024, 4, 28), Date(2024, 4, 29), Date(2024, 4, 30)},
                      t \in TimesOfDay}

Users == {"u1", "u2"}

\* hours by which the runtime's local time is ahead of UTC
TimeZones == {0, 1}

VARIABLES
    call,                    \* the calculator invocation under test
    tz,                      \* local time-zone offset of the runtime
    transactions,            \* rows of the transactions table
    tax_declarations,        \* rows of the tax_declarations table
    quarterly_declarations,  \* rows of the quarterly_declarations table
    nextId,                  \* the next row id the store hands out
    now,                     \* the clock read by new Date()
    outcome,                 \* how the last store operation ended
    runs,                    \* generation, invoice or notification runs so far
    requests,                \* generation requests in flight, by request
    invoices,                \* rows of the invoices table
    notifications,           \* rows of the notifications table
    emails                   \* ids of the notifications emailed, in order

storeVars ==
    <<tz, transactions, tax_declarations, quarterly_declarations, nextId, now,
      outcome, runs>>

serviceVars == <<requests, invoices, notifications, emails>>

vars == <<call, storeVars, serviceVars>>

\* a calculator call: its arguments, the local date of the call, and its
\* result once the function has run
Pending(fn, args, today) ==
    [fn |-> fn, args |-> args, today |-> today, done |-> FALSE,
     result |-> Return(<<>>)]

CalcCalls ==
    {Pending("calculateSocialContributions", <<revenue, activityType>>, today) :
        revenue \in Revenues, activityType \in ActivityTypes, today \in CalcDates}
    \cup
    {Pending("calculateContributionsWithACRE", <<revenue, activityType, acreYear>>, today) :
        revenue \in Revenues, activityType \in ActivityTypes,
        acreYear \in AcreYears, today \in CalcDates}
    \cup
    {Pending("simulateContributions", <<revenues, activityType>>, today) :
        revenues \in SimInputs, activityType \in ActivityTypes, today \in CalcDates}
    \cup
    {Pending("calculateIncomeTax", <<revenue, activityType, parts>>, today) :
        revenue \in Revenues, activityType \in ActivityTypes,
        parts \in PartsValues, today \in {CHOOSE t \in CalcDates : TRUE}}
    \cup
    {Pending("calculateCFE", <<revenue, activityType, commune, surfaceM2>>, today) :
        revenue \in Revenues, activityType \in ActivityTypes, commune \in Communes,
        surfaceM2 \in Surfaces, today \in {CHOOSE t \in CalcDates : TRUE}}
    \cup
    {Pending("checkACREEligibility", <<creationDate, hasReceivedACRE>>, today) :
        creationDate \in CreationDates, hasReceivedACRE \in BOOLEAN,
        today \in AcreTodays}

EmptyStore ==
    /\ tax_declarations = <<>>
    /\ quarterly_declarations = <<>>
    /\ nextId = 1
    /\ now = 0
    /\ outcome = "none"
    /\ runs = 0

\* no generation request in flight
NoRequests == requests = <<>>

\* the invoices and notifications tables are empty and no email was sent
NoInvoices == invoices = <<>>

NoNotifications == notifications = <<>> /\ emails = <<>>

InitCalc ==
    /\ call \in CalcCalls
    /\ tz = 0
    /\ transactions = <<>>
    /\ EmptyStore
    /\ NoRequests /\ NoInvoices /\ NoNotifications

Finish(result) ==
    /\ call' = [call EXCEPT !.done = TRUE, !.result = result]
    /\ UNCHANGED <<storeVars, serviceVars>>

CallCalculateSocialContributions ==
    /\ call.fn = "calculateSocialContributions" /\ ~call.done
    /\ Finish(calculateSocialContributions(call.args[1], call.args[2],
                                           call.today.y, call.today))

CallCalculateContributionsWithACRE ==
    /\ call.fn = "calculateContributionsWithACRE" /\ ~call.done
    /\ Finish(calculateContributionsWithACRE(call.args[1], call.args[2],
                                             call.args[3], call.today))

CallSimulateContributions ==
    /\ call.fn = "simulateContributions" /\ ~call.done
    /\ Finish(simulateContributions(call.args[1], call.args[2], call.today))

CallCalculateIncomeTax ==
    /\ call.fn = "calculateIncomeTax" /\ ~call.done
    /\ Finish(Return(calculateIncomeTax(call.args[1], call.args[2], call.args[3])))

CallCalculateCFE ==
    /\ call.fn = "calculateCFE" /\ ~call.done
    /\ Finish(Return(calculateCFE(call.args[1], call.args[2], call.args[3],
                                  call.args[4])))

CallCheckACREEligibility ==
    /\ call.fn = "checkACREEligibility" /\ ~call.done
    /\ Finish(Return(checkACREEligibility(call.args[1], call.args[2], call.today)))

NextCalc ==
    \/ CallCalculateSocialContributions
    \/ CallCalculateContributionsWithACRE
    \/ CallSimulateContributions
    \/ CallCalculateIncomeTax
    \/ CallCalculateCFE
    \/ CallCheckACREEligibility

SpecCalc == InitCalc /\ [][NextCalc]_vars

(***************************************************************************)
(* Properties of the calculators (checked under SpecCalc)                  *)
(***************************************************************************)
Returned(fn) == call.done /\ call.fn = fn

\* the franchise thresholds as the specification states them
StatedThreshold(activityType) ==
    CASE activityType = "services" -> Num(77700)
      [] activityType = "commerce" -> Num(188700)
      [] activityType = "liberal" -> Num(77700)

ComponentNames ==
    {"maladie", "retraite_base", "retraite_complementaire", "invalidite_deces",
     "csg_crds", "formation_professionnelle"}

SixSum(c) ==
    RAdd(RAdd(RAdd(RAdd(RAdd(c.maladie, c.retraite_base), c.retraite_complementaire),
                   c.invalidite_deces), c.csg_crds), c.formation_professionnelle)

\* C1: calculateSocialContributions throws the franchise-exceeded error,
\* naming threshold and activity type, exactly when revenue is strictly above
\* the activity type's threshold, and otherwise returns a result computed on
\* the unmodified revenue (no clamping); calculateContributionsWithACRE and
\* simulateContributions surface the same error.
C1_FranchiseThreshold ==
    /\ \A fn \in {"calculateSocialContributions", "calculateContributionsWithACRE"} :
         Returned(fn) =>
            LET revenue == call.args[1]
                threshold == StatedThreshold(call.args[2])
                r == call.result
            IN  IF RLt(threshold, revenue)
                THEN /\ ~r.ok
                     /\ r.error.threshold = threshold
                     /\ r.error.activityType = call.args[2]
                ELSE /\ r.ok
                     /\ r.value.revenue = revenue
                     /\ RAdd(r.value.net_revenue, r.value.contributions.total) = revenue
                     /\ fn = "calculateSocialContributions" =>
                            r.value.contributions.maladie = RMul(revenue, Dec(65, 1000))
    /\ Returned("simulateContributions") =>
            LET revenues == call.args[1]
                threshold == StatedThreshold(call.args[2])
                r == call.result
            IN  IF \E i \in DOMAIN revenues : RLt(threshold, revenues[i])
                THEN /\ ~r.ok
                     /\ r.error.threshold = threshold
                     /\ r.error.activityType = call.args[2]
                ELSE /\ r.ok
                     /\ Len(r.value) = Len(revenues)
                     /\ \A i \in DOMAIN revenues : r.value[i].revenue = revenues[i]

C1_Witness ==
    /\ Returned("calculateSocialContributions")
    /\ call.args = <<Num(80000), "services">>
    /\ ~call.result.ok
    /\ call.result.error.threshold = Num(77700)

\* C2: for every activity type and every revenue >= 0 within the threshold,
\* the six contribution amounts returned by calculateSocialContributions sum
\* to contributions.total.
C2_SixComponentsSumToTotal ==
    (/\ Returned("calculateSocialContributions")
     /\ call.result.ok
     /\ RLeq(Num(0), call.args[1]))
        => SixSum(call.result.value.contributions)
               = call.result.value.contributions.total

\* the slice of one bracket as the specification states it
StatedSlice(taxableIncome, bracket) ==
    IF RLt(bracket.min, taxableIncome)
    THEN RMul(RSub(RMin(taxableIncome, bracket.max), bracket.min), bracket.rate)
    ELSE Num(0)

StatedBracketSum(taxableIncome) ==
    RAdd(RAdd(RAdd(RAdd(StatedSlice(taxableIncome, INCOME_TAX_BRACKETS_2024[1]),
                        StatedSlice(taxableIncome, INCOME_TAX_BRACKETS_2024[2])),
                   StatedSlice(taxableIncome, INCOME_TAX_BRACKETS_2024[3])),
              StatedSlice(taxableIncome, INCOME_TAX_BRACKETS_2024[4])),
         StatedSlice(taxableIncome, INCOME_TAX_BRACKETS_2024[5]))

StatedAbatement(activityType) ==
    CASE activityType = "services" -> Dec(50, 100)
      [] activityType = "commerce" -> Dec(29, 100)
      [] activityType = "liberal" -> Dec(34, 100)

\* C3: for revenue >= 0 and parts >= 1, calculateIncomeTax returns
\* abattement = revenue x (0.50 | 0.29 | 0.34), taxable_income =
\* (revenue - abattement) / parts and total_tax = parts x the sum of the
\* bracket slices below taxable_income; (30000, services, 1) gives 15000,
\* 15000 and (15000 - 11294) x 0.11.
C3_IncomeTaxFormula ==
    (Returned("calculateIncomeTax") /\ RLeq(Num(0), call.args[1])) =>
        LET revenue == call.args[1]
            parts == call.args[3]
            r == call.result.value
        IN  /\ r.abattement = RMul(revenue, StatedAbatement(call.args[2]))
            /\ r.taxable_income = RDiv(RSub(revenue, r.abattement), parts)
            /\ r.total_tax = RMul(parts, StatedBracketSum(r.taxable_income))
            /\ call.args = <<Num(30000), "services", Num(1)>> =>
                  /\ r.abattement = Num(15000)
                  /\ r.taxable_income = Num(15000)
                  /\ r.total_tax = RMul(Num(15000 - 11294), Dec(11, 100))

C3_Witness ==
    /\ Returned("calculateIncomeTax")
    /\ call.args = <<Num(50000), "services", Num(2)>>
    /\ call.result.value.taxable_income = Num(12500)
    /\ call.result.value.total_tax = Dec(26532, 100)

C8_CFEExemption ==
    Returned("calculateCFE") =>
        LET r == call.result.value
        IN  IF RLt(call.args[1], Num(5000))
            THEN /\ r.is_exempt
                 /\ r.base_amount = Num(0)
                 /\ r.tax_rate = Num(0)
                 /\ r.total_cfe = Num(0)
                 /\ r.exemption_reason # "undefined"
            ELSE ~r.is_exempt

C8_Witness ==
    /\ Returned("calculateCFE")
    /\ call.args[1] = Num(5000)
    /\ ~call.result.value.is_exempt

\* C9: for every non-exempt calculateCFE result, base_amount lies in
\* [minimum_base, maximum_base] = [227, 7000].
C9_BaseAmountClamped ==
    (Returned("calculateCFE") /\ ~call.result.value.is_exempt) =>
        /\ RLeq(Num(227), call.result.value.base_amount)
        /\ RLeq(call.result.value.base_amount, Num(7000))

StatedRevenueBase(revenue) ==
    IF RLt(Num(32600), revenue)
    THEN RMin(RMul(revenue, Dec(5, 1000)), Num(7000))
    ELSE Num(227)

\* C10 (as stated): for every non-exempt calculateCFE call, a supplied
\* surface (0 included) gives base_amount = min(surfaceM2 x 16, 7000); no
\* surface gives min(revenue x 0.005, 7000) above 32600 and 227 otherwise;
\* total_cfe = base_amount x 0.25 and tax_rate = 0.25 for every commune.
C10_SuppliedSurfaceRule ==
    (Returned("calculateCFE") /\ RLeq(Num(5000), call.args[1])) =>
        LET surfaceM2 == call.args[4]
            r == call.result.value
        IN  /\ r.base_amount =
                  IF surfaceM2 # Undefined
                  THEN RMin(RMul(surfaceM2, Num(16)), Num(7000))
                  ELSE StatedRevenueBase(call.args[1])
            /\ r.tax_rate = Dec(25, 100)
            /\ r.total_cfe = RMul(r.base_amount, Dec(25, 100))

\* C10 (amended): for every non-exempt calculateCFE call, a supplied non-zero
\* surface gives base_amount = min(surfaceM2 x 16, 7000); no surface, or a
\* surface of 0, gives min(revenue x 0.005, 7000) above 32600 and 227
\* otherwise; total_cfe = base_amount x 0.25 and tax_rate = 0.25 for every
\* commune.
C10_NonZeroSurfaceRule ==
    (Returned("calculateCFE") /\ RLeq(Num(5000), call.args[1])) =>
        LET surfaceM2 == call.args[4]
            r == call.result.value
        IN  /\ r.base_amount =
                  IF surfaceM2 # Undefined /\ surfaceM2 # Num(0)
                  THEN RMin(RMul(surfaceM2, Num(16)), Num(7000))
                  ELSE StatedRevenueBase(call.args[1])
            /\ r.tax_rate = Dec(25, 100)
            /\ r.total_cfe = RMul(r.base_amount, Dec(25, 100))

C10_Witness ==
    /\ Returned("calculateCFE")
    /\ call.args = <<Num(50000), "services", "Lyon", Num(0)>>
    /\ call.result.value.base_amount = Num(250)
    /\ call.result.value.total_cfe = Dec(125, 2)

(***************************************************************************)
(* accounting.ts: queries on the transactions table                        *)
(***************************************************************************)
RECURSIVE SumAmounts(_, _, _)
SumAmounts(rows, i, acc) ==
    IF i > Len(rows) THEN acc
    ELSE SumAmounts(rows, i + 1, RAdd(acc, rows[i].amount))

InRange(row, userId, startDate, endDate) ==
    /\ row.user_id = userId
    /\ DateLeq(startDate, row.date)
    /\ DateLeq(row.date, endDate)

getUserTransactions(rows, userId, type, startDate, endDate) ==
    SelectSeq(rows, LAMBDA row : InRange(row, userId, startDate, endDate)
                                     /\ row.type = type)

getAccountingSummary(rows, userId, startDate, endDate) ==
    LET selected == SelectSeq(rows, LAMBDA row : InRange(row, userId, startDate, endDate))
        income == SelectSeq(selected, LAMBDA row : row.type = "income")
        expenses == SelectSeq(selected, LAMBDA row : row.type # "income")
        totalIncome == SumAmounts(income, 1, Num(0))
        totalExpenses == SumAmounts(expenses, 1, Num(0))
    IN  [totalIncome |-> totalIncome,
         totalExpenses |-> totalExpenses,
         netResult |-> RSub(totalIncome, totalExpenses)]

(***************************************************************************)
(* taxDeclarations.ts: the fiscal calendar and declaration generation      *)
(***************************************************************************)
TAX_CALENDAR_2024 ==
    [monthly_urssaf |->
        << [month |-> 1,  due_date |-> Date(2024, 1, 31)],
           [month |-> 2,  due_date |-> Date(2024, 2, 29)],
           [month |-> 3,  due_date |-> Date(2024, 3, 31)],
           [month |-> 4,  due_date |-> Date(2024, 4, 30)],
           [month |-> 5,  due_date |-> Date(2024, 5, 31)],
           [month |-> 6,  due_date |-> Date(2024, 6, 30)],
           [month |-> 7,  due_date |-> Date(2024, 7, 31)],
           [month |-> 8,  due_date |-> Date(2024, 8, 31)],
           [month |-> 9,  due_date |-> Date(2024, 9, 30)],
           [month |-> 10, due_date |-> Date(2024, 10, 31)],
           [month |-> 11, due_date |-> Date(2024, 11, 30)],
           [month |-> 12, due_date |-> Date(2024, 12, 31)] >>,
     quarterly_urssaf |->
        << [quarter |-> 1, due_date |-> Date(2024, 4, 30)],
           [quarter |-> 2, due_date |-> Date(2024, 7, 31)],
           [quarter |-> 3, due_date |-> Date(2024, 10, 31)],
           [quarter |-> 4, due_date |-> Date(2025, 1, 31)] >>]

\* the record pushed on the local declarations list
TaxDeclarationData(userId, year, type, periodStart, periodEnd, revenue, taxAmount, dueDate) ==
    [user_id |-> userId,
     year |-> year,
     declaration_type |-> type,
     period_start |-> periodStart,
     period_end |-> periodEnd,
     revenue |-> revenue,
     expenses |-> Num(0),
     net_result |-> revenue,
     tax_amount |-> taxAmount,
     status |-> "draft",
     due_date |-> dueDate]

\* prepareURSSAFDeclaration(userId, year, month, activityType)
prepareURSSAFDeclaration(rows, zone, today, userId, year, month, activityType) ==
    LET startDate == JSDate(year, month - 1, 1)
        endDate == JSDate(year, month, 0)
        summary == getAccountingSummary(rows, userId, ISODate(startDate, zone),
                                        ISODate(endDate, zone))
        contributions == calculateSocialContributions(summary.totalIncome,
                                                      activityType, year, today)
    IN  IF ~contributions.ok THEN contributions
        ELSE Return([revenue |-> summary.totalIncome,
                     activity_type |-> activityType,
                     contributions |-> contributions.value.contributions,
                     declaration_month |-> <<year, month>>,
                     is_acre |-> FALSE])

\* the monthly loop of generateAnnualTaxDeclarations, from calendar entry i
RECURSIVE MonthlyDeclarations(_, _, _, _, _, _, _, _)
MonthlyDeclarations(rows, zone, today, userId, year, activityType, i, declarations) ==
    IF i > Len(TAX_CALENDAR_2024.monthly_urssaf) THEN Return(declarations)
    ELSE LET monthData == TAX_CALENDAR_2024.monthly_urssaf[i]
             urssafData == prepareURSSAFDeclaration(rows, zone, today, userId, year,
                                                    monthData.month, activityType)
         IN  IF ~urssafData.ok THEN urssafData
             ELSE MonthlyDeclarations(rows, zone, today, userId, year, activityType, i + 1,
                     Append(declarations,
                            TaxDeclarationData(userId, year, "urssaf",
                                FirstOfMonth(year, monthData.month),
                                ISODate(JSDate(year, monthData.month, 0), zone),
                                urssafData.value.revenue,
                                urssafData.value.contributions.total,
                                monthData.due_date)))

\* one pass of the quarterly loop of generateAnnualTaxDeclarations: the
\* declaration pushed for a calendar entry, or the error thrown
QuarterlyEntry(rows, zone, today, userId, year, activityType, quarterData) ==
    LET startMonth == (quarterData.quarter - 1) * 3 + 1
        endMonth == quarterData.quarter * 3
        summary == getAccountingSummary(rows, userId,
                                        FirstOfMonth(year, startMonth),
                                        ISODate(JSDate(year, endMonth, 0), zone))
        contributions == calculateSocialContributions(summary.totalIncome,
                                                      activityType, year, today)
    IN  IF ~contributions.ok THEN contributions
        ELSE Return(TaxDeclarationData(userId, year, "urssaf",
                        FirstOfMonth(year, startMonth),
                        ISODate(JSDate(year, endMonth, 0), zone),
                        summary.totalIncome,
                        contributions.value.contributions.total,
                        quarterData.due_date))

\* the quarterly loop of generateAnnualTaxDeclarations, from calendar entry i
RECURSIVE QuarterlyDeclarations(_, _, _, _, _, _, _, _)
QuarterlyDeclarations(rows, zone, today, userId, year, activityType, i, declarations) ==
    IF i > Len(TAX_CALENDAR_2024.quarterly_urssaf) THEN Return(declarations)
    ELSE LET entry == QuarterlyEntry(rows, zone, today, userId, year, activityType,
                                     TAX_CALENDAR_2024.quarterly_urssaf[i])
         IN  IF ~entry.ok THEN entry
             ELSE QuarterlyDeclarations(rows, zone, today, userId, year, activityType, i + 1,
                                        Append(declarations, entry.value))

\* the element of a one-element set: The({e}) is e, computed once
The(S) == CHOOSE x \in S : TRUE

\* the income-tax and CFE entries pushed after the URSSAF ones
AnnualEntries(userId, year, activityType, totalIncome) ==
    << TaxDeclarationData(userId, year, "income_tax",
           Date(year, 1, 1), Date(year, 12, 31), totalIncome,
           calculateIncomeTax(totalIncome, activityType, Num(1)).total_tax,
           Date(year + 1, 5, 31)),
       TaxDeclarationData(userId, year, "cfe",
           Date(year, 1, 1), Date(year, 12, 31), totalIncome,
           calculateCFE(totalIncome, activityType, "Paris", Undefined).total_cfe,
           Date(year, 12, 15)) >>

\* the local declarations list of generateAnnualTaxDeclarations as it stands
\* before the first insert, or the error thrown while building it
AnnualTaxDeclarationList(rows, zone, today, userId, year, activityType, declarationFrequency) ==
    The({ IF ~urssaf.ok THEN urssaf
          ELSE Return(urssaf.value
                      \o AnnualEntries(userId, year, activityType,
                                       annualSummary.totalIncome)) :
          urssaf \in
              { IF declarationFrequency = "monthly"
                THEN MonthlyDeclarations(rows, zone, today, userId, year,
                                         activityType, 1, <<>>)
                ELSE QuarterlyDeclarations(rows, zone, today, userId, year,
                                           activityType, 1, <<>>) },
          annualSummary \in
              { getAccountingSummary(rows, userId, Date(year, 1, 1),
                                     Date(year, 12, 31)) } })

(***************************************************************************)
(* The record store and the clock                                          *)
(***************************************************************************)
Null == 0 - 1

ClockStart == Date(2024, 4, 29)

\* the calendar date at clock value t (one day per tick)
RECURSIVE Today(_)
Today(t) == IF t = 0 THEN ClockStart ELSE NextDay(Today(t - 1))

\* variant: the insert is skipped when the table already holds a row of the
\* same user, year and period
InsertRow_ifAbsent(table, data, id) ==
    IF \E k \in DOMAIN table :
           /\ table[k].user_id = data.user_id
           /\ table[k].year = data.year
           /\ IF "quarter" \in DOMAIN data
              THEN table[k].quarter = data.quarter
              ELSE /\ table[k].declaration_type = data.declaration_type
                   /\ table[k].period_start = data.period_start
    THEN table
    ELSE Append(table, [f \in DOMAIN data \cup {"id", "submitted_at", "paid_at"} |->
                           CASE f = "id" -> id
                             [] f = "submitted_at" -> Null
                             [] f = "paid_at" -> Null
                             [] OTHER -> data[f]])

\* .insert(data).select().single(): the stored row gets the next id
InsertRow(table, data, id) ==
    Append(table, [f \in DOMAIN data \cup {"id", "submitted_at", "paid_at"} |->
                      CASE f = "id" -> id
                        [] f = "submitted_at" -> Null
                        [] f = "paid_at" -> Null
                        [] OTHER -> data[f]])

\* the insert loop of generateAnnualTaxDeclarations: createTaxDeclaration for
\* each element of the local list, from element i on
RECURSIVE createTaxDeclarations(_, _, _, _)
createTaxDeclarations(table, declarations, i, id) ==
    IF i > Len(declarations) THEN table
    ELSE createTaxDeclarations(InsertRow(table, declarations[i], id),
                               declarations, i + 1, id + 1)

\* variant: the update has no .eq('id', declarationId) filter
UpdateStatus_all(table, declarationId, status, stampField, stamp) ==
    [i \in DOMAIN table |->
        [table[i] EXCEPT !.status = status, ![stampField] = stamp]]

\* .update(patch).eq('id', declarationId): every row with that id is patched;
\* no row matching is not an error
UpdateStatus(table, declarationId, status, stampField, stamp) ==
    [i \in DOMAIN table |->
        IF table[i].id = declarationId
        THEN [table[i] EXCEPT !.status = status, ![stampField] = stamp]
        ELSE table[i]]

(***************************************************************************)
(* socialContributions.ts: quarterly declarations                          *)
(***************************************************************************)
calculateQuarterlyContributions(rows, zone, today, userId, year, quarter, activityType) ==
    LET startMonth == (quarter - 1) * 3 + 1
        endMonth == quarter * 3
        startDate == JSDate(year, startMonth - 1, 1)
        endDate == JSDate(year, endMonth, 0)
        selected == getUserTransactions(rows, userId, "income",
                                        ISODate(startDate, zone), ISODate(endDate, zone))
        quarterlyRevenue == SumAmounts(selected, 1, Num(0))
    IN  calculateSocialContributions(quarterlyRevenue, activityType, year, today)

\* variant: the row is not written when the call returns
saveQuarterlyDeclaration_deferred(table, zone, userId, year, quarter, calculation, id) ==
    table

saveQuarterlyDeclaration(table, zone, userId, year, quarter, calculation, id) ==
    LET dueMonth == (quarter * 3) + 1
        dueDate == JSDate(year, dueMonth, 0)
    IN  InsertRow(table,
                  [user_id |-> userId,
                   year |-> year,
                   quarter |-> quarter,
                   revenue |-> calculation.revenue,
                   contributions |-> calculation.contributions.total,
                   activity_type |-> calculation.activity_type,
                   status |-> "draft",
                   due_date |-> ISODate(dueDate, zone)],
                  id)

\* the loop of generateAnnualDeclarations from the given quarter on; a throw
\* leaves the rows saved so far in the table
RECURSIVE generateAnnualDeclarations(_, _, _, _, _, _, _, _, _)
generateAnnualDeclarations(rows, zone, today, userId, year, activityType, quarter, table, id) ==
    IF quarter > 4 THEN [table |-> table, nextId |-> id, threw |-> FALSE]
    ELSE LET calculation ==
                 calculateQuarterlyContributions(rows, zone, today, userId, year,
                                                 quarter, activityType)
         IN  IF ~calculation.ok
             THEN [table |-> table, nextId |-> id, threw |-> TRUE]
             ELSE IF RLt(Num(0), calculation.value.revenue)
                  THEN generateAnnualDeclarations(rows, zone, today, userId, year,
                           activityType, quarter + 1,
                           saveQuarterlyDeclaration(table, zone, userId, year, quarter,
                                                    calculation.value, id),
                           id + 1)
                  ELSE generateAnnualDeclarations(rows, zone, today, userId, year,
                           activityType, quarter + 1, table, id)

(***************************************************************************)
(* Inputs of the store operations                                          *)
(***************************************************************************)
\* years passed to the generators: the current year and the one before
Years == {2023, 2024}

Frequencies == {"monthly", "quarterly"}

TargetIds == 1..MaxTargetId

Income(userId, date, amount) ==
    [user_id |-> userId, type |-> "income", date |-> date, amount |-> Num(amount)]

Expense(userId, date, amount) ==
    [user_id |-> userId, type |-> "expense", date |-> date, amount |-> Num(amount)]

\* contents of the transactions table
TransactionTables ==
    { <<>>,
      << Income("u1", Date(2023, 12, 31), 300),
         Income("u1", Date(2024, 2, 10), 1000),
         Income("u1", Date(2024, 3, 31), 500),
         Expense("u1", Date(2024, 2, 11), 300),
         Income("u2", Date(2024, 2, 10), 700),
         Income("u1", Date(2024, 12, 31), 200) >>,
      << Income("u1", Date(2024, 5, 5), 80000),
         Income("u2", Date(2024, 1, 1), 40) >> }

(***************************************************************************)
(* Store operations                                                        *)
(***************************************************************************)
Init ==
    /\ call = [fn |-> "none", args |-> <<>>, today |-> ClockStart, done |-> TRUE,
               result |-> Return(<<>>)]
    /\ tz \in TimeZones
    /\ transactions \in TransactionTables
    /\ EmptyStore
    /\ NoRequests /\ NoInvoices /\ NoNotifications

GenerateAnnualTaxDeclarations(userId, year, activityType, declarationFrequency) ==
    /\ runs < MaxRuns
    /\ runs' = runs + 1
    /\ \E declarations \in
           { AnnualTaxDeclarationList(transactions, tz, Today(now), userId, year,
                                      activityType, declarationFrequency) } :
           IF declarations.ok
           THEN /\ tax_declarations' =
                       createTaxDeclarations(tax_declarations, declarations.value,
                                             1, nextId)
                /\ nextId' = nextId + Len(declarations.value)
                /\ outcome' = "returned"
           ELSE /\ outcome' = "threw"
                /\ UNCHANGED <<tax_declarations, nextId>>
    /\ UNCHANGED <<call, serviceVars, tz, transactions, quarterly_declarations, now>>

GenerateAnnualDeclarations(userId, year, activityType) ==
    LET run == generateAnnualDeclarations(transactions, tz, Today(now), userId, year,
                                          activityType, 1, quarterly_declarations,
                                          nextId)
    IN  /\ runs < MaxRuns
        /\ runs' = runs + 1
        /\ quarterly_declarations' = run.table
        /\ nextId' = run.nextId
        /\ outcome' = IF run.threw THEN "threw" ELSE "returned"
        /\ UNCHANGED <<call, serviceVars, tz, transactions, tax_declarations, now>>

\* the store rejects the request (if (error) throw error): nothing is written
StoreError ==
    /\ outcome' = "threw"
    /\ UNCHANGED <<call, serviceVars, tz, transactions, tax_declarations, quarterly_declarations,
                   nextId, now, runs>>

SubmitTaxDeclaration(declarationId) ==
    \/ /\ tax_declarations' = UpdateStatus(tax_declarations, declarationId,
                                           "submitted", "submitted_at", now)
       /\ outcome' = "returned"
       /\ UNCHANGED <<call, serviceVars, tz, transactions, quarterly_declarations, nextId, now, runs>>
    \/ StoreError

PayTaxDeclaration(declarationId) ==
    \/ /\ tax_declarations' = UpdateStatus(tax_declarations, declarationId,
                                           "paid", "paid_at", now)
       /\ outcome' = "returned"
       /\ UNCHANGED <<call, serviceVars, tz, transactions, quarterly_declarations, nextId, now, runs>>
    \/ StoreError

SubmitQuarterlyDeclaration(declarationId) ==
    \/ /\ quarterly_declarations' = UpdateStatus(quarterly_declarations, declarationId,
                                                 "submitted", "submitted_at", now)
       /\ outcome' = "returned"
       /\ UNCHANGED <<call, serviceVars, tz, transactions, tax_declarations, nextId, now, runs>>
    \/ StoreError

PayQuarterlyDeclaration(declarationId) ==
    \/ /\ quarterly_declarations' = UpdateStatus(quarterly_declarations, declarationId,
                                                 "paid", "paid_at", now)
       /\ outcome' = "returned"
       /\ UNCHANGED <<call, serviceVars, tz, transactions, tax_declarations, nextId, now, runs>>
    \/ StoreError

Tick ==
    /\ now < MaxTime
    /\ now' = now + 1
    /\ UNCHANGED <<call, serviceVars, tz, transactions, tax_declarations, quarterly_declarations,
                   nextId, outcome, runs>>

\* the user of the session (useAuth().user) that drives the pages
SignedInUser == "u1"

\* the page's year as it is first shown: useState(new Date().getFullYear())
selectedYear == Today(now).y

\* business.activity_type of each user's profile
ActivityOf(userId) == IF userId = "u1" THEN "services" ELSE "commerce"

\* handleGenerateDeclarations of the taxes page: the signed-in user, the
\* activity type of the profile, always 'quarterly'
HandleGenerateDeclarations(userId, year) ==
    GenerateAnnualTaxDeclarations(userId, year, ActivityOf(userId), "quarterly")

\* the application as its pages drive it
Next ==
    \/ HandleGenerateDeclarations(SignedInUser, selectedYear)
    \/ GenerateAnnualDeclarations(SignedInUser, selectedYear,
                                  ActivityOf(SignedInUser))
    \/ \E declarationId \in TargetIds : SubmitTaxDeclaration(declarationId)
    \/ \E declarationId \in TargetIds : PayTaxDeclaration(declarationId)
    \/ \E declarationId \in TargetIds : SubmitQuarterlyDeclaration(declarationId)
    \/ \E declarationId \in TargetIds : PayQuarterlyDeclaration(declarationId)
    \/ Tick

Spec == Init /\ [][Next]_vars

\* the generation functions called with every argument combination
NextGen ==
    \/ \E userId \in Users, year \in Years, activityType \in ActivityTypes,
          declarationFrequency \in Frequencies :
           GenerateAnnualTaxDeclarations(userId, year, activityType, declarationFrequency)
    \/ \E userId \in Users, year \in Years, activityType \in ActivityTypes :
           GenerateAnnualDeclarations(userId, year, activityType)

SpecGen == Init /\ [][NextGen]_vars

(***************************************************************************)
(* Properties of the declaration stores (checked under Spec)               *)
(***************************************************************************)
\* status changes the lifecycle draft -> submitted -> paid allows
Advances(before, after) ==
    \/ before = "draft" /\ after = "submitted"
    \/ before = "submitted" /\ after = "paid"

OnlyAdvances(table, tableAfter) ==
    \A i \in DOMAIN table \cap DOMAIN tableAfter :
        tableAfter[i].status # table[i].status
            => Advances(table[i].status, tableAfter[i].status)

\* C4: under every sequence of submit and pay calls, the status of a
\* declaration of either table only moves draft -> submitted (by submit) and
\* submitted -> paid (by pay): no call skips a state, none moves a status back.
C4_StatusOnlyAdvances ==
    [][/\ OnlyAdvances(tax_declarations, tax_declarations')
       /\ OnlyAdvances(quarterly_declarations, quarterly_declarations')
       /\ \A declarationId \in TargetIds :
             /\ SubmitTaxDeclaration(declarationId) =>
                    \A i \in DOMAIN tax_declarations :
                        tax_declarations'[i].status \in
                            {tax_declarations[i].status, "submitted"}
             /\ PayTaxDeclaration(declarationId) =>
                    \A i \in DOMAIN tax_declarations :
                        tax_declarations'[i].status \in
                            {tax_declarations[i].status, "paid"}]_vars

\* the period key of a tax declaration: user, year, type and period
TaxPeriodKey(row) ==
    <<row.user_id, row.year, row.declaration_type, row.period_start, row.period_end>>

QuarterKey(row) == <<row.user_id, row.year, row.quarter>>

\* C5: generating again for the same user, year and frequency creates no
\* duplicate: each table holds at most one declaration per period key.
C5_OneDeclarationPerPeriodKey ==
    /\ \A i, j \in DOMAIN tax_declarations :
           TaxPeriodKey(tax_declarations[i]) = TaxPeriodKey(tax_declarations[j])
               => i = j
    /\ \A i, j \in DOMAIN quarterly_declarations :
           QuarterKey(quarterly_declarations[i]) = QuarterKey(quarterly_declarations[j])
               => i = j

\* the declaration id names no row of the table, or a row already paid
MissingOrPaid(table, declarationId) ==
    \A i \in DOMAIN table : table[i].id = declarationId => table[i].status = "paid"

\* C6: submit and pay (of either table) called with an id that matches no
\* declaration, or the id of a paid declaration, fail with an error and leave
\* every stored declaration unchanged.
C6_MissingOrPaidRejected ==
    [][\A declarationId \in TargetIds :
          /\ ((SubmitTaxDeclaration(declarationId) \/ PayTaxDeclaration(declarationId))
                 /\ MissingOrPaid(tax_declarations, declarationId))
               => (outcome' = "threw" /\ tax_declarations' = tax_declarations)
          /\ ((SubmitQuarterlyDeclaration(declarationId)
                 \/ PayQuarterlyDeclaration(declarationId))
                 /\ MissingOrPaid(quarterly_declarations, declarationId))
               => (outcome' = "threw"
                   /\ quarterly_declarations' = quarterly_declarations)]_vars

(***************************************************************************)
(* Due dates of the generated declarations                                 *)
(***************************************************************************)
\* the last calendar day of month m of year y; m = 13 is January of y + 1
LastDayOfMonth(y, m) ==
    IF m > 12
    THEN Date(y + 1, m - 12, DaysInMonth(y + 1, m - 12))
    ELSE Date(y, m, DaysInMonth(y, m))

\* the due date the rule gives a tax declaration, from its year, type and
\* period: a URSSAF period within one month is monthly, otherwise quarterly
StatedTaxDueDate(row) ==
    CASE row.declaration_type = "income_tax" -> Date(row.year + 1, 5, 31)
      [] row.declaration_type = "cfe" -> Date(row.year, 12, 15)
      [] OTHER ->
            IF row.period_end.m = row.period_start.m
            THEN LastDayOfMonth(row.year, row.period_start.m)
            ELSE LastDayOfMonth(row.year, row.period_start.m + 3)

\* C11: every declaration generateAnnualTaxDeclarations creates for year Y
\* carries a due date computed from Y: quarterly URSSAF on the last day of the
\* month after the quarter's end (Q4 in January of Y + 1), monthly URSSAF on
\* the last day of its own month of Y, income tax on May 31 of Y + 1 and CFE
\* on December 15 of Y.
C11_DueDatesFromYear ==
    \A i \in DOMAIN tax_declarations :
        tax_declarations[i].due_date = StatedTaxDueDate(tax_declarations[i])

\* C12: every row saveQuarterlyDeclaration stores for year Y and quarter q
\* has due_date = the last calendar day of the month after the quarter's last
\* month: Y-04-30, Y-07-31, Y-10-31, (Y+1)-01-31.
C12_QuarterlyDueDate ==
    \A i \in DOMAIN quarterly_declarations :
        LET row == quarterly_declarations[i]
        IN  row.due_date = LastDayOfMonth(row.year, (row.quarter * 3) + 1)

(***************************************************************************)
(* Relations between calculateIncomeTax results (checked under SpecCalc)   *)
(***************************************************************************)
\* C13: for fixed activity type and parts >= 1, total_tax is non-decreasing
\* in revenue: total_tax(r1) <= total_tax(r2) for all 0 <= r1 <= r2.
C13_TaxMonotoneInRevenue ==
    (Returned("calculateIncomeTax") /\ RLeq(Num(0), call.args[1])) =>
        \A r1 \in Revenues :
            (RLeq(Num(0), r1) /\ RLeq(r1, call.args[1])) =>
                RLeq(calculateIncomeTax(r1, call.args[2], call.args[3]).total_tax,
                     call.result.value.total_tax)

C13_Witness ==
    /\ Returned("calculateIncomeTax")
    /\ call.args = <<Num(50000), "services", Num(1)>>
    /\ call.result.value.total_tax = Dec(150766, 100)
    /\ calculateIncomeTax(Num(30000), "services", Num(1)).total_tax = Dec(40766, 100)

\* the tax on the first k brackets taken in full
RECURSIVE FullBrackets(_)
FullBrackets(k) ==
    IF k = 0 THEN Num(0)
    ELSE RAdd(FullBrackets(k - 1),
              RMul(RSub(INCOME_TAX_BRACKETS_2024[k].max,
                        INCOME_TAX_BRACKETS_2024[k].min),
                   INCOME_TAX_BRACKETS_2024[k].rate))

\* C14: total_tax = 0 for revenue = 0, and when taxable_income equals a
\* bracket boundary b exactly, total_tax is exactly the tax (per part, times
\* parts) on the full brackets below b: the bracket starting at b adds nothing.
C14_BoundaryCountedOnce ==
    (Returned("calculateIncomeTax") /\ RLeq(Num(0), call.args[1])) =>
        LET r == call.result.value
        IN  /\ call.args[1] = Num(0) => r.total_tax = Num(0)
            /\ \A i \in DOMAIN INCOME_TAX_BRACKETS_2024 :
                  r.taxable_income = INCOME_TAX_BRACKETS_2024[i].min =>
                      r.total_tax = RMul(call.args[3], FullBrackets(i - 1))

C14_Witness ==
    /\ Returned("calculateIncomeTax")
    /\ call.args = <<Num(57594), "services", Num(1)>>
    /\ call.result.value.taxable_income = Num(28797)
    /\ call.result.value.total_tax = Dec(192533, 100)

\* C15: for fixed revenue and activity type, more parts never give more tax:
\* total_tax(p2) <= total_tax(p1) for all 1 <= p1 <= p2.
C15_TaxNonIncreasingInParts ==
    Returned("calculateIncomeTax") =>
        \A p1 \in PartsValues :
            (RLeq(Num(1), p1) /\ RLeq(p1, call.args[3])) =>
                RLeq(call.result.value.total_tax,
                     calculateIncomeTax(call.args[1], call.args[2], p1).total_tax)

C15_Witness ==
    /\ Returned("calculateIncomeTax")
    /\ call.args = <<Num(50000), "services", Num(2)>>
    /\ call.result.value.total_tax = Dec(26532, 100)
    /\ calculateIncomeTax(Num(50000), "services", Num(1)).total_tax = Dec(150766, 100)

\* the sum of the amounts of an itemized list
RECURSIVE ListedSum(_, _)
ListedSum(list, i) ==
    IF i > Len(list) THEN Num(0) ELSE RAdd(list[i].amount, ListedSum(list, i + 1))

\* C16: tax_brackets lists, in ascending order, exactly the brackets whose
\* lower bound is strictly below taxable_income, each with its min, max, rate
\* and amount; the zero-rate bracket 0..11294 is listed with amount 0; and
\* total_tax = parts x the sum of the listed amounts.
C16_ItemizedBrackets ==
    Returned("calculateIncomeTax") =>
        LET r == call.result.value
            list == r.tax_brackets
            below == {i \in DOMAIN INCOME_TAX_BRACKETS_2024 :
                         RLt(INCOME_TAX_BRACKETS_2024[i].min, r.taxable_income)}
        IN  /\ DOMAIN list = below
            /\ \A i \in below :
                  list[i] = [min |-> INCOME_TAX_BRACKETS_2024[i].min,
                             max |-> INCOME_TAX_BRACKETS_2024[i].max,
                             rate |-> INCOME_TAX_BRACKETS_2024[i].rate,
                             amount |-> StatedSlice(r.taxable_income,
                                                    INCOME_TAX_BRACKETS_2024[i])]
            /\ below # {} =>
                  /\ list[1].min = Num(0) /\ list[1].max = Num(11294)
                  /\ list[1].rate = Num(0) /\ list[1].amount = Num(0)
            /\ r.total_tax = RMul(call.args[3], ListedSum(list, 1))

C16_Witness ==
    /\ Returned("calculateIncomeTax")
    /\ call.args = <<Num(30000), "services", Num(1)>>
    /\ Len(call.result.value.tax_brackets) = 2
    /\ call.result.value.tax_brackets[1].amount = Num(0)
    /\ call.result.value.tax_brackets[2].amount = Dec(40766, 100)

(***************************************************************************)
(* ACRE eligibility (checked under SpecCalc)                               *)
(***************************************************************************)
\* creationDate + years: the same month, day and time of day that many years
\* on; for a 29 February with no counterpart in that year the rule leaves the
\* day open, and both 28 February and 1 March are taken as readings of it
StatedAnniversaries(creationDate, years) ==
    LET dt == creationDate.date
        y == dt.y + years
    IN  IF dt.d <= DaysInMonth(y, dt.m)
        THEN {Instant(Date(y, dt.m, dt.d), creationDate.t)}
        ELSE {Instant(Date(y, 2, 28), creationDate.t),
              Instant(Date(y, 3, 1), creationDate.t)}

\* today <= creationDate + 3 years under every reading / under some reading
WithinThreeYears(today, creationDate) ==
    \A a \in StatedAnniversaries(creationDate, 3) :
        DateLt(today.date, a.date) \/ (today.date = a.date /\ today.t <= a.t)

PossiblyWithinThreeYears(today, creationDate) ==
    \E a \in StatedAnniversaries(creationDate, 3) :
        DateLt(today.date, a.date) \/ (today.date = a.date /\ today.t <= a.t)

\* C17: checkACREEligibility returns eligible = true if and only if
\* alreadyClaimed is false and today <= creationDate + 3 years, the exact
\* third anniversary included; in every other case eligible = false.
C17_EligibleIffWithinThreeYears ==
    Returned("checkACREEligibility") =>
        LET creationDate == call.args[1]
            alreadyClaimed == call.args[2]
            r == call.result.value
        IN  /\ r.eligible \in BOOLEAN
            /\ (~alreadyClaimed /\ WithinThreeYears(call.today, creationDate))
                   => r.eligible
            /\ r.eligible
                   => (~alreadyClaimed
                       /\ PossiblyWithinThreeYears(call.today, creationDate))

C17_Witness ==
    /\ Returned("checkACREEligibility")
    /\ call.args = <<Instant(Date(2021, 4, 29), 1), FALSE>>
    /\ call.today = Instant(Date(2024, 4, 29), 1)
    /\ call.result.value.eligible

\* C18: checkACREEligibility always returns expiryDate = creationDate + 3
\* years, also when eligible is false (already claimed, or three years passed).
C18_ExpiryDateAlways ==
    Returned("checkACREEligibility") =>
        call.result.value.expiryDate \in StatedAnniversaries(call.args[1], 3)

(***************************************************************************)
(* Revenue of the generated declarations (checked under SpecGen)           *)
(***************************************************************************)
\* the sum of the amounts of the user's income transactions dated within
\* [periodStart, periodEnd], from row i on
RECURSIVE IncomeWithin(_, _, _, _, _)
IncomeWithin(rows, i, userId, periodStart, periodEnd) ==
    IF i > Len(rows) THEN Num(0)
    ELSE RAdd(IF /\ rows[i].user_id = userId
                 /\ rows[i].type = "income"
                 /\ DateLeq(periodStart, rows[i].date)
                 /\ DateLeq(rows[i].date, periodEnd)
              THEN rows[i].amount
              ELSE Num(0),
              IncomeWithin(rows, i + 1, userId, periodStart, periodEnd))

\* C19: the revenue of each generated declaration is the sum of the amounts
\* of that user's income transactions dated within the declaration's period,
\* bounds included (period_start .. period_end of a tax declaration, the
\* calendar quarter of a quarterly declaration); expenses, other dates and
\* other users contribute nothing.
C19_RevenueIsPeriodIncome ==
    /\ \A i \in DOMAIN tax_declarations :
           LET row == tax_declarations[i]
           IN  row.revenue = IncomeWithin(transactions, 1, row.user_id,
                                          row.period_start, row.period_end)
    /\ \A i \in DOMAIN quarterly_declarations :
           LET row == quarterly_declarations[i]
           IN  row.revenue = IncomeWithin(transactions, 1, row.user_id,
                                          Date(row.year, (row.quarter * 3) - 2, 1),
                                          LastDayOfMonth(row.year, row.quarter * 3))

(***************************************************************************)
(* Who changes a declaration's status (checked under Spec)                 *)
(***************************************************************************)
\* the rows a step adds to a table are drafts, and no row is removed
CreatedAsDraft(table, tableAfter) ==
    /\ DOMAIN table \subseteq DOMAIN tableAfter
    /\ \A i \in DOMAIN tableAfter \ DOMAIN table : tableAfter[i].status = "draft"

\* the rows whose id is not declarationId are left as they are
OthersUntouched(table, tableAfter, declarationId) ==
    \A i \in DOMAIN table :
        table[i].id # declarationId => tableAfter[i] = table[i]

StatedTotalRate(activityType) ==
    CASE activityType = "services" -> Dec(221, 1000)
      [] activityType = "commerce" -> Dec(1286, 10000)
      [] activityType = "liberal" -> Dec(221, 1000)

\* the share of the contributions an ACRE year leaves to pay
StatedACREFactor(acreYear) ==
    CASE acreYear = 1 -> Dec(25, 100)
      [] acreYear = 2 -> Dec(50, 100)
      [] acreYear = 3 -> Dec(75, 100)

\* C21: every returned result has contributions.total = revenue x the
\* activity type's total rate (x the ACRE factor for the ACRE calculator) and
\* net_revenue = revenue - that same contributions.total; (30000, services)
\* gives 6630 and 23370.
C21_TotalAndNetRevenue ==
    /\ (Returned("calculateSocialContributions") /\ call.result.ok) =>
           LET r == call.result.value
           IN  /\ r.contributions.total =
                      RMul(call.args[1], StatedTotalRate(call.args[2]))
               /\ r.net_revenue = RSub(call.args[1], r.contributions.total)
               /\ call.args = <<Num(30000), "services">> =>
                      /\ r.contributions.total = Num(6630)
                      /\ r.net_revenue = Num(23370)
    /\ (Returned("calculateContributionsWithACRE") /\ call.result.ok) =>
           LET r == call.result.value
           IN  /\ r.contributions.total =
                      RMul(RMul(call.args[1], StatedTotalRate(call.args[2])),
                           StatedACREFactor(call.args[3]))
               /\ r.net_revenue = RSub(call.args[1], r.contributions.total)

C21_Witness ==
    /\ Returned("calculateContributionsWithACRE")
    /\ call.args = <<Num(30000), "services", 1>>
    /\ call.result.value.contributions.total = Dec(16575, 10)
    /\ call.result.value.net_revenue = Dec(283425, 10)

\* C22: calculateSocialContributions, calculateContributionsWithACRE,
\* calculateIncomeTax and calculateCFE called with a negative revenue end
\* with an error instead of a computed result.
C22_NegativeRevenueRejected ==
    \A fn \in {"calculateSocialContributions", "calculateContributionsWithACRE",
               "calculateIncomeTax", "calculateCFE"} :
        (Returned(fn) /\ RLt(call.args[1], Num(0))) => ~call.result.ok

\* C23: a calculator's result depends on its explicit arguments only: the
\* same call (for calculateSocialContributions with the same year passed)
\* made at any other date returns the same result in every field.
C23_ResultIndependentOfDate ==
    /\ Returned("calculateSocialContributions") =>
           \A today \in CalcDates :
               calculateSocialContributions(call.args[1], call.args[2],
                                            call.today.y, today) = call.result
    /\ Returned("calculateContributionsWithACRE") =>
           \A today \in CalcDates :
               calculateContributionsWithACRE(call.args[1], call.args[2],
                                              call.args[3], today) = call.result

(***************************************************************************)
(* Generation requests step by step: every await of                        *)
(* generateAnnualTaxDeclarations and generateAnnualDeclarations is a point *)
(* where another request may run                                           *)
(***************************************************************************)
Requests == {"r1", "r2"}

IdleRequest ==
    [fn |-> "none", pc |-> "idle", userId |-> "", year |-> 0, activityType |-> "",
     i |-> 0, declarations |-> <<>>, calculation |-> <<>>, created |-> {},
     failedAt |-> "none"]

InitRace ==
    /\ call = [fn |-> "none", args |-> <<>>, today |-> ClockStart, done |-> TRUE,
               result |-> Return(<<>>)]
    /\ tz \in TimeZones
    /\ transactions \in TransactionTables
    /\ EmptyStore
    /\ requests = [r \in Requests |-> IdleRequest]
    /\ NoInvoices /\ NoNotifications

\* the request's promise rejects: where it stopped is kept
Failed(request, at) == [request EXCEPT !.pc = "threw", !.failedAt = at]

\* generateAnnualTaxDeclarations(userId, year, activityType, 'quarterly') is
\* called: const declarations = []
StartGenerateAnnualTaxDeclarations(r, userId, year, activityType) ==
    /\ requests[r].pc = "idle"
    /\ requests' = [requests EXCEPT ![r] =
           [IdleRequest EXCEPT !.fn = "generateAnnualTaxDeclarations", !.pc = "fetch",
                               !.userId = userId, !.year = year,
                               !.activityType = activityType, !.i = 1]]
    /\ UNCHANGED <<call, storeVars, invoices, notifications, emails>>

\* await getAccountingSummary(...) of the quarterly loop resolves or rejects,
\* then calculateSocialContributions returns or throws
FetchQuarter(r) ==
    LET request == requests[r]
    IN  /\ request.pc = "fetch"
        /\ request.i <= Len(TAX_CALENDAR_2024.quarterly_urssaf)
        /\ \/ requests' = [requests EXCEPT ![r] = Failed(request, "fetch")]
           \/ \E entry \in { QuarterlyEntry(transactions, tz, Today(now), request.userId,
                                            request.year, request.activityType,
                                            TAX_CALENDAR_2024.quarterly_urssaf[request.i]) } :
                  requests' = [requests EXCEPT ![r] =
                      IF entry.ok
                      THEN [request EXCEPT !.declarations = Append(@, entry.value),
                                           !.i = @ + 1]
                      ELSE Failed(request, "calculation")]
        /\ UNCHANGED <<call, storeVars, invoices, notifications, emails>>

\* await getAccountingSummary(userId, `${year}-01-01`, `${year}-12-31`), then
\* the income-tax and CFE entries are pushed and the insert loop begins
FetchAnnualSummary(r) ==
    LET request == requests[r]
    IN  /\ request.pc = "fetch"
        /\ request.i > Len(TAX_CALENDAR_2024.quarterly_urssaf)
        /\ \/ requests' = [requests EXCEPT ![r] = Failed(request, "fetch")]
           \/ \E annualSummary \in { getAccountingSummary(transactions, request.userId,
                                                          Date(request.year, 1, 1),
                                                          Date(request.year, 12, 31)) } :
                  requests' = [requests EXCEPT ![r] =
                      [request EXCEPT
                          !.declarations = @ \o AnnualEntries(request.userId, request.year,
                                                              request.activityType,
                                                              annualSummary.totalIncome),
                          !.pc = "insert", !.i = 1]]
        /\ UNCHANGED <<call, storeVars, invoices, notifications, emails>>

\* await createTaxDeclaration(declaration) for the next element of the list
CreateTaxDeclaration(r) ==
    LET request == requests[r]
    IN  /\ request.pc = "insert"
        /\ \/ /\ requests' = [requests EXCEPT ![r] = Failed(request, "insert")]
              /\ UNCHANGED <<tax_declarations, nextId>>
           \/ /\ tax_declarations' = InsertRow(tax_declarations,
                                               request.declarations[request.i], nextId)
              /\ nextId' = nextId + 1
              /\ requests' = [requests EXCEPT ![r] =
                     [request EXCEPT
                         !.created = @ \cup {nextId},
                         !.i = @ + 1,
                         !.pc = IF request.i = Len(request.declarations)
                                THEN "returned" ELSE "insert"]]
        /\ UNCHANGED <<call, tz, transactions, quarterly_declarations, now, outcome, runs,
                       invoices, notifications, emails>>

\* generateAnnualDeclarations(userId, year, activityType) is called
StartGenerateAnnualDeclarations(r, userId, year, activityType) ==
    /\ requests[r].pc = "idle"
    /\ requests' = [requests EXCEPT ![r] =
           [IdleRequest EXCEPT !.fn = "generateAnnualDeclarations", !.pc = "calculate",
                               !.userId = userId, !.year = year,
                               !.activityType = activityType, !.i = 1]]
    /\ UNCHANGED <<call, storeVars, invoices, notifications, emails>>

\* quarter++ of the loop of generateAnnualDeclarations
NextQuarter(request) ==
    IF request.i = 4 THEN [request EXCEPT !.pc = "returned"]
    ELSE [request EXCEPT !.pc = "calculate", !.i = @ + 1]

\* await calculateQuarterlyContributions(userId, year, quarter, activityType)
CalculateQuarter(r) ==
    LET request == requests[r]
    IN  /\ request.pc = "calculate"
        /\ \/ requests' = [requests EXCEPT ![r] = Failed(request, "fetch")]
           \/ \E calculation \in
                  { calculateQuarterlyContributions(transactions, tz, Today(now),
                        request.userId, request.year, request.i,
                        request.activityType) } :
                  requests' = [requests EXCEPT ![r] =
                      IF ~calculation.ok THEN Failed(request, "calculation")
                      ELSE IF RLt(Num(0), calculation.value.revenue)
                           THEN [request EXCEPT !.pc = "save",
                                                !.calculation = calculation.value]
                           ELSE NextQuarter(request)]
        /\ UNCHANGED <<call, storeVars, invoices, notifications, emails>>

\* await saveQuarterlyDeclaration(userId, year, quarter, calculation)
SaveQuarter(r) ==
    LET request == requests[r]
    IN  /\ request.pc = "save"
        /\ \/ /\ requests' = [requests EXCEPT ![r] = Failed(request, "insert")]
              /\ UNCHANGED <<quarterly_declarations, nextId>>
           \/ /\ quarterly_declarations' =
                     saveQuarterlyDeclaration(quarterly_declarations, tz, request.userId,
                                              request.year, request.i,
                                              request.calculation, nextId)
              /\ nextId' = nextId + 1
              /\ requests' = [requests EXCEPT ![r] =
                     NextQuarter([request EXCEPT !.created = @ \cup {nextId},
                                                 !.calculation = <<>>])]
        /\ UNCHANGED <<call, tz, transactions, tax_declarations, now, outcome, runs,
                       invoices, notifications, emails>>

\* two requests of the signed-in user for the year shown, in any interleaving
NextRace ==
    \/ \E r \in Requests :
           StartGenerateAnnualTaxDeclarations(r, SignedInUser, selectedYear,
                                              ActivityOf(SignedInUser))
    \/ \E r \in Requests : FetchQuarter(r)
    \/ \E r \in Requests : FetchAnnualSummary(r)
    \/ \E r \in Requests : CreateTaxDeclaration(r)
    \/ \E r \in Requests :
           StartGenerateAnnualDeclarations(r, SignedInUser, selectedYear,
                                           ActivityOf(SignedInUser))
    \/ \E r \in Requests : CalculateQuarter(r)
    \/ \E r \in Requests : SaveQuarter(r)

SpecRace == InitRace /\ [][NextRace]_vars

(***************************************************************************)
(* Properties of interleaved generation requests (checked under SpecRace)  *)
(***************************************************************************)
\* the rows of a table that belong to the user and year of a request
RowsOf(table, request) ==
    { k \in DOMAIN table : /\ table[k].user_id = request.userId
                           /\ table[k].year = request.year }

\* the inserts of two requests alternated: neither made all of its inserts
\* before the other's first
Alternated(a, b) ==
    /\ a.created # {} /\ b.created # {}
    /\ \E x \in a.created, y \in b.created : x < y
    /\ \E x \in a.created, y \in b.created : y < x

\* C24: no insert of a generation request is held back by a row another
\* request has stored: once two requests of the same function for the same
\* user and year have both returned, every declaration of that user and year
\* shares its period key with another stored declaration.
C24_BothRequestsInsert ==
    \A r1, r2 \in Requests :
        LET a == requests[r1]
            b == requests[r2]
        IN  ( /\ r1 # r2
              /\ a.pc = "returned" /\ b.pc = "returned"
              /\ a.fn = b.fn /\ a.userId = b.userId /\ a.year = b.year )
            => IF a.fn = "generateAnnualTaxDeclarations"
               THEN \A k \in RowsOf(tax_declarations, a) :
                        \E j \in RowsOf(tax_declarations, a) :
                            /\ j # k
                            /\ TaxPeriodKey(tax_declarations[j])
                                   = TaxPeriodKey(tax_declarations[k])
               ELSE \A k \in RowsOf(quarterly_declarations, a) :
                        \E j \in RowsOf(quarterly_declarations, a) :
                            /\ j # k
                            /\ QuarterKey(quarterly_declarations[j])
                                   = QuarterKey(quarterly_declarations[k])

\* two generateAnnualTaxDeclarations requests of one user and year have both
\* returned, their inserts alternated, and a period key is stored twice
C24_Witness ==
    \E r1, r2 \in Requests :
        LET a == requests[r1]
            b == requests[r2]
        IN  /\ r1 # r2
            /\ a.fn = "generateAnnualTaxDeclarations" /\ b.fn = a.fn
            /\ a.userId = b.userId /\ a.year = b.year
            /\ a.pc = "returned" /\ b.pc = "returned"
            /\ Alternated(a, b)
            /\ \E j, k \in DOMAIN tax_declarations :
                   /\ j # k
                   /\ TaxPeriodKey(tax_declarations[j]) = TaxPeriodKey(tax_declarations[k])

\* the request stopped on a rejected fetch or a thrown calculation
FailedBeforeInsert(request) ==
    request.pc = "threw" /\ request.failedAt \in {"fetch", "calculation"}

\* the quarter has income for the request's user, as the quarterly query sees it
QuarterHasRevenue(request, quarter) ==
    LET calculation == calculateQuarterlyContributions(transactions, tz, Today(now),
                           request.userId, request.year, quarter, request.activityType)
    IN  calculation.ok /\ RLt(Num(0), calculation.value.revenue)

\* C25: a generateAnnualTaxDeclarations request that stops on a failed fetch
\* or a thrown calculation has created no declaration; a
\* generateAnnualDeclarations request that stops at quarter q has saved a
\* declaration for every earlier quarter with revenue.
C25_ErrorBeforeFirstInsert ==
    \A r \in Requests :
        LET request == requests[r]
        IN  FailedBeforeInsert(request)
            => IF request.fn = "generateAnnualTaxDeclarations"
               THEN /\ request.created = {}
                    /\ \A k \in DOMAIN tax_declarations :
                           tax_declarations[k].id \notin request.created
               ELSE \A quarter \in 1..(request.i - 1) :
                        QuarterHasRevenue(request, quarter)
                        => \E k \in RowsOf(quarterly_declarations, request) :
                               /\ quarterly_declarations[k].id \in request.created
                               /\ quarterly_declarations[k].quarter = quarter

\* a tax request stopped after at least one successful fetch, and a quarterly
\* request stopped at a later quarter with an earlier quarter's declaration
\* saved
C25_Witness ==
    \E r1, r2 \in Requests :
        /\ requests[r1].fn = "generateAnnualTaxDeclarations"
        /\ FailedBeforeInsert(requests[r1])
        /\ requests[r1].i >= 2
        /\ requests[r2].fn = "generateAnnualDeclarations"
        /\ FailedBeforeInsert(requests[r2])
        /\ requests[r2].i >= 2
        /\ requests[r2].created # {}
        /\ quarterly_declarations # <<>>

(***************************************************************************)
(* The quarters of a year (checked under SpecGen)                          *)
(***************************************************************************)
RECURSIVE SumRevenue(_, _)
SumRevenue(rows, i) ==
    IF i > Len(rows) THEN Num(0)
    ELSE RAdd(rows[i].revenue, SumRevenue(rows, i + 1))

\* the query of calculateQuarterlyContributions for the quarter selects the
\* transaction
CountedInQuarter(row, year, quarter) ==
    LET calculation == calculateQuarterlyContributions(<<row>>, tz, Today(now),
                           row.user_id, year, quarter, "commerce")
    IN  ~calculation.ok \/ RLt(Num(0), calculation.value.revenue)

\* the query of the quarterly branch of generateAnnualTaxDeclarations for the
\* quarter selects the transaction
CountedInTaxQuarter(row, year, quarter) ==
    LET entry == QuarterlyEntry(<<row>>, tz, Today(now), row.user_id, year, "commerce",
                                TAX_CALENDAR_2024.quarterly_urssaf[quarter])
    IN  ~entry.ok \/ RLt(Num(0), entry.value.revenue)

\* C26: whatever the time zone of the runtime, the four quarterly queries of
\* a year partition it: after one generation run that returned, the revenues
\* of the four quarters sum to the user's income of the year, and every
\* income transaction of a year is selected by exactly one quarter's query.
C26_QuartersPartitionYear ==
    (runs = 1 /\ outcome = "returned") =>
        /\ \A userId \in Users, year \in Years :
               LET saved == SelectSeq(quarterly_declarations,
                                LAMBDA row : row.user_id = userId /\ row.year = year)
                   urssaf == SelectSeq(tax_declarations,
                                 LAMBDA row : /\ row.user_id = userId
                                              /\ row.year = year
                                              /\ row.declaration_type = "urssaf")
                   annual == IncomeWithin(transactions, 1, userId,
                                          Date(year, 1, 1), Date(year, 12, 31))
               IN  /\ saved # <<>> => SumRevenue(saved, 1) = annual
                   /\ Len(urssaf) = 4 => SumRevenue(urssaf, 1) = annual
        /\ \A k \in DOMAIN transactions :
               LET row == transactions[k]
               IN  (row.type = "income" /\ row.date.y \in Years) =>
                       /\ Cardinality({ quarter \in 1..4 :
                              CountedInQuarter(row, row.date.y, quarter) }) = 1
                       /\ Cardinality({ quarter \in 1..4 :
                              CountedInTaxQuarter(row, row.date.y, quarter) }) = 1

\* the same statement for a runtime whose local time is UTC
C26_QuartersPartitionYearUTC == tz = 0 => C26_QuartersPartitionYear

(***************************************************************************)
(* invoices.ts: invoice numbers                                            *)
(***************************************************************************)
\* n.toString(): the decimal digits of a non-negative integer
RECURSIVE Digits(_)
Digits(n) == IF n < 10 THEN <<n>> ELSE Append(Digits(n \div 10), n % 10)

\* digits.padStart(length, '0')
RECURSIVE padStart(_, _)
padStart(digits, length) ==
    IF Len(digits) >= length THEN digits ELSE padStart(<<0>> \o digits, length)

\* parseInt(digits)
RECURSIVE parseInt(_)
parseInt(digits) ==
    IF digits = <<>> THEN 0
    ELSE parseInt(SubSeq(digits, 1, Len(digits) - 1)) * 10 + digits[Len(digits)]

\* text order of two digit strings, as ORDER BY on a TEXT column compares them
RECURSIVE TextLt(_, _)
TextLt(a, b) ==
    IF b = <<>> THEN FALSE
    ELSE IF a = <<>> THEN TRUE
    ELSE IF a[1] # b[1] THEN a[1] < b[1]
    ELSE TextLt(Tail(a), Tail(b))

\* the text `FAC-${year}-${digits}`
InvoiceNumber(year, digits) == [prefix |-> "FAC", year |-> year, digits |-> digits]

\* generateInvoiceNumber(userId): .eq('user_id').like(`FAC-${currentYear}-%`)
\* .order('invoice_number', { ascending: false }).limit(1)
generateInvoiceNumber(rows, userId, currentYear) ==
    LET matching == { k \in DOMAIN rows : /\ rows[k].user_id = userId
                                          /\ rows[k].invoice_number.year = currentYear }
        nextNumber ==
            IF matching = {} THEN 1
            ELSE LET last == CHOOSE k \in matching : \A j \in matching :
                                 ~TextLt(rows[k].invoice_number.digits,
                                         rows[j].invoice_number.digits)
                 IN  parseInt(rows[last].invoice_number.digits) + 1
    IN  InvoiceNumber(currentYear, padStart(Digits(nextNumber), 4))

\* a stored invoice
InvoiceRow(id, userId, number, items) ==
    [id |-> id, user_id |-> userId, invoice_number |-> number, status |-> "draft",
     items |-> items]

\* invoice tables the application can have reached: rows of the first user
\* left after deletions, numbered in 2024 unless said otherwise
InvoiceTables ==
    { <<>>,
      << InvoiceRow(1, "u1", InvoiceNumber(2023, padStart(Digits(7), 4)), TRUE) >>,
      << InvoiceRow(1, "u1", InvoiceNumber(2024, padStart(Digits(1), 4)), TRUE),
         InvoiceRow(2, "u1", InvoiceNumber(2024, padStart(Digits(2), 4)), TRUE) >>,
      << InvoiceRow(1, "u1", InvoiceNumber(2024, padStart(Digits(999), 4)), TRUE) >>,
      << InvoiceRow(1, "u1", InvoiceNumber(2024, padStart(Digits(9998), 4)), TRUE) >>,
      << InvoiceRow(1, "u1", InvoiceNumber(2024, padStart(Digits(9999), 4)), TRUE) >>,
      << InvoiceRow(1, "u1", InvoiceNumber(2024, padStart(Digits(2000), 4)), TRUE),
         InvoiceRow(2, "u1", InvoiceNumber(2024, padStart(Digits(10000), 4)), TRUE) >> }

InitInvoices ==
    /\ call = [fn |-> "none", args |-> <<>>, today |-> ClockStart, done |-> TRUE,
               result |-> Return(<<>>)]
    /\ tz = 0
    /\ transactions = <<>>
    /\ tax_declarations = <<>>
    /\ quarterly_declarations = <<>>
    /\ invoices \in InvoiceTables
    /\ nextId = Len(invoices) + 1
    /\ now = 0
    /\ outcome = "none"
    /\ runs = 0
    /\ NoRequests /\ NoNotifications

\* createInvoice(userId, data): the number is generated, the invoice is
\* inserted (invoice_number TEXT UNIQUE NOT NULL rejects a number already
\* stored), then its items are inserted
CreateInvoice(userId) ==
    /\ runs < MaxRuns
    /\ runs' = runs + 1
    /\ \E invoiceNumber \in { generateInvoiceNumber(invoices, userId, Today(now).y) } :
           IF \E k \in DOMAIN invoices : invoices[k].invoice_number = invoiceNumber
           THEN /\ outcome' = "unique_violation"
                /\ UNCHANGED <<invoices, nextId>>
           ELSE /\ nextId' = nextId + 1
                /\ \/ /\ invoices' = Append(invoices, InvoiceRow(nextId, userId,
                                                                 invoiceNumber, TRUE))
                      /\ outcome' = "returned"
                   \/ /\ invoices' = Append(invoices, InvoiceRow(nextId, userId,
                                                                 invoiceNumber, FALSE))
                      /\ outcome' = "threw"
    /\ UNCHANGED <<call, tz, transactions, tax_declarations, quarterly_declarations, now,
                   requests, notifications, emails>>

\* deleteInvoice(invoiceId)
DeleteInvoice(invoiceId) ==
    /\ invoices' = SelectSeq(invoices, LAMBDA row : row.id # invoiceId)
    /\ outcome' = "returned"
    /\ UNCHANGED <<call, tz, transactions, tax_declarations, quarterly_declarations,
                   nextId, now, runs, requests, notifications, emails>>

NextInvoices ==
    \/ \E userId \in Users : CreateInvoice(userId)
    \/ \E invoiceId \in TargetIds : DeleteInvoice(invoiceId)

SpecInvoices == InitInvoices /\ [][NextInvoices]_vars

\* the highest number n among the user's stored invoices of the year, 0 if none
RECURSIVE HighestNumber(_, _, _, _)
HighestNumber(rows, i, userId, year) ==
    IF i > Len(rows) THEN 0
    ELSE LET rest == HighestNumber(rows, i + 1, userId, year)
             n == IF rows[i].user_id = userId /\ rows[i].invoice_number.year = year
                  THEN parseInt(rows[i].invoice_number.digits) ELSE 0
         IN  IF n > rest THEN n ELSE rest

\* C27: in a store holding only one user's invoices, every createInvoice call
\* of that user stores an invoice whose number is FAC-<year>-<n> with n one
\* greater than the highest number stored for the user and year, and the
\* stored numbers stay pairwise distinct.
C27_NextInvoiceNumber ==
    [][\A userId \in Users :
           ( /\ CreateInvoice(userId)
             /\ \A k \in DOMAIN invoices : invoices[k].user_id = userId )
           => /\ Len(invoices') = Len(invoices) + 1
              /\ invoices'[Len(invoices')].invoice_number.year = Today(now).y
              /\ parseInt(invoices'[Len(invoices')].invoice_number.digits)
                     = HighestNumber(invoices, 1, userId, Today(now).y) + 1
              /\ \A j, k \in DOMAIN invoices' :
                     j # k => invoices'[j].invoice_number # invoices'[k].invoice_number
      ]_vars

\* the same statement while the numbers stay within four digits
C27_NextInvoiceNumberUpTo9999 ==
    [][\A userId \in Users :
           ( /\ CreateInvoice(userId)
             /\ \A k \in DOMAIN invoices : invoices[k].user_id = userId
             /\ HighestNumber(invoices, 1, userId, Today(now).y) < 9999 )
           => /\ Len(invoices') = Len(invoices) + 1
              /\ parseInt(invoices'[Len(invoices')].invoice_number.digits)
                     = HighestNumber(invoices, 1, userId, Today(now).y) + 1
      ]_vars

(***************************************************************************)
(* Overdue and upcoming declarations                                       *)
(***************************************************************************)
\* date.toISOString().split('T')[0] of any instant: the UTC calendar date,
\* the previous day at local midnight when local time is ahead of UTC
ISODateOf(instant, zone) ==
    IF instant.t = 0 THEN ISODate(instant.date, zone) ELSE instant.date

\* date.setDate(date.getDate() + days)
RECURSIVE AddDays(_, _)
AddDays(dt, days) == IF days = 0 THEN dt ELSE AddDays(NextDay(dt), days - 1)

\* .order('due_date'): the rows by ascending due date, built by inserting
\* each row after the rows sorted so far that are due no later
RECURSIVE InsertByDueDate(_, _)
InsertByDueDate(sorted, row) ==
    IF sorted = <<>> THEN <<row>>
    ELSE IF DateLt(row.due_date, Head(sorted).due_date) THEN <<row>> \o sorted
    ELSE <<Head(sorted)>> \o InsertByDueDate(Tail(sorted), row)

RECURSIVE OrderFrom(_, _, _)
OrderFrom(rows, i, sorted) ==
    IF i > Len(rows) THEN sorted
    ELSE OrderFrom(rows, i + 1, InsertByDueDate(sorted, rows[i]))

OrderByDueDate(rows) == OrderFrom(rows, 1, <<>>)

\* variant: .lte('due_date', today)
getOverdueTaxDeclarations_inclusive(table, zone, userId, clock) ==
    LET today == ISODateOf(clock, zone)
    IN  OrderByDueDate(SelectSeq(table, LAMBDA row : /\ row.user_id = userId
                                                     /\ DateLeq(row.due_date, today)
                                                     /\ row.status # "paid"))

\* getOverdueTaxDeclarations(userId), called at the instant clock
getOverdueTaxDeclarations(table, zone, userId, clock) ==
    LET today == ISODateOf(clock, zone)
    IN  OrderByDueDate(SelectSeq(table, LAMBDA row : /\ row.user_id = userId
                                                     /\ DateLt(row.due_date, today)
                                                     /\ row.status # "paid"))

\* getUpcomingTaxDeadlines(userId, days), called at the instant clock
getUpcomingTaxDeadlines(table, zone, userId, days, clock) ==
    LET today == clock
        futureDate == Instant(AddDays(today.date, days), today.t)
    IN  OrderByDueDate(SelectSeq(table,
            LAMBDA row : /\ row.user_id = userId
                         /\ DateLeq(ISODateOf(today, zone), row.due_date)
                         /\ DateLeq(row.due_date, ISODateOf(futureDate, zone))
                         /\ row.status # "paid"))

\* getOverdueDeclarations(userId) of socialContributions.ts
getOverdueDeclarations(table, zone, userId, clock) ==
    LET today == ISODateOf(clock, zone)
    IN  OrderByDueDate(SelectSeq(table, LAMBDA row : /\ row.user_id = userId
                                                     /\ DateLt(row.due_date, today)
                                                     /\ row.status # "paid"))

\* getUpcomingDeadlines(userId, days) of socialContributions.ts
getUpcomingDeadlines(table, zone, userId, days, clock) ==
    LET today == clock
        futureDate == Instant(AddDays(today.date, days), today.t)
    IN  OrderByDueDate(SelectSeq(table,
            LAMBDA row : /\ row.user_id = userId
                         /\ DateLeq(ISODateOf(today, zone), row.due_date)
                         /\ DateLeq(row.due_date, ISODateOf(futureDate, zone))
                         /\ row.status # "paid"))

\* the default of the days parameter
DefaultDays == 30

\* the ids of the rows of a query result
Ids(rows) == { rows[k].id : k \in DOMAIN rows }

\* what C28 states of one table, given the results of its two queries and
\* the date the queries take as today
OverdueAndUpcoming(table, userId, today, overdue, upcoming) ==
    \A overdueIds \in { Ids(overdue) }, upcomingIds \in { Ids(upcoming) } :
        /\ overdueIds \cap upcomingIds = {}
        /\ \A k \in DOMAIN overdue : overdue[k].status # "paid"
        /\ \A k \in DOMAIN upcoming : upcoming[k].status # "paid"
        /\ \A k \in DOMAIN table :
               ( /\ table[k].user_id = userId
                 /\ table[k].status # "paid" )
               => /\ DateLt(table[k].due_date, today) => table[k].id \in overdueIds
                  /\ table[k].due_date = today
                         => /\ table[k].id \in upcomingIds
                            /\ table[k].id \notin overdueIds

NotificationRow(id, type, scheduledFor) ==
    [id |-> id, type |-> type, scheduled_for |-> scheduledFor, sent |-> FALSE,
     sent_at |-> Null]

\* notifications scheduled by scheduleInvoiceReminder and
\* scheduleTaxDeadlineReminder, for now or for later
NotificationTables ==
    { <<>> }
    \cup { << NotificationRow(1, "invoice_reminder", first) >> : first \in 0..MaxTime }
    \cup { << NotificationRow(1, "invoice_reminder", first),
              NotificationRow(2, "tax_deadline", second) >> :
           first \in 0..MaxTime, second \in 0..MaxTime }

InitNotifications ==
    /\ call = [fn |-> "none", args |-> <<>>, today |-> ClockStart, done |-> TRUE,
               result |-> Return(<<>>)]
    /\ tz = 0
    /\ transactions = <<>>
    /\ EmptyStore
    /\ notifications \in NotificationTables
    /\ emails = <<>>
    /\ NoRequests /\ NoInvoices

\* how the body of the try block ends for one notification: the email is
\* sent and the row is marked, an exception is caught before the email is
\* sent, or the email is sent and the update returns an error nobody reads
Endings == {"sent", "caught", "update_error"}

\* .lte('scheduled_for', now).eq('sent', false)
DueNotifications(rows, time) ==
    SelectSeq(rows, LAMBDA row : row.scheduled_for <= time /\ ~row.sent)

\* the emails sent by the for loop over the selected notifications
RECURSIVE EmailsSent(_, _, _)
EmailsSent(selected, i, ending) ==
    IF i > Len(selected) THEN <<>>
    ELSE (IF ending[selected[i].id] = "caught" THEN <<>> ELSE <<selected[i].id>>)
         \o EmailsSent(selected, i + 1, ending)

\* .update({ sent: true, sent_at }).eq('id', notification.id) for the
\* notifications whose update succeeded
MarkSent(rows, selected, ending, time) ==
    [k \in DOMAIN rows |->
        IF /\ \E i \in DOMAIN selected : selected[i].id = rows[k].id
           /\ ending[rows[k].id] = "sent"
        THEN [rows[k] EXCEPT !.sent = TRUE, !.sent_at = time]
        ELSE rows[k]]

\* one run of processScheduledNotifications
ProcessScheduledNotifications ==
    /\ runs < MaxRuns
    /\ runs' = runs + 1
    /\ \/ /\ outcome' = "threw"
          /\ UNCHANGED <<notifications, emails>>
       \/ \E selected \in { DueNotifications(notifications, now) } :
              \E ending \in [{ selected[i].id : i \in DOMAIN selected } -> Endings] :
                  /\ emails' = emails \o EmailsSent(selected, 1, ending)
                  /\ notifications' = MarkSent(notifications, selected, ending, now)
                  /\ outcome' = "returned"
    /\ UNCHANGED <<call, tz, transactions, tax_declarations, quarterly_declarations,
                   nextId, now, requests, invoices>>

\* time passes
TickNotifications ==
    /\ now < MaxTime
    /\ now' = now + 1
    /\ UNCHANGED <<call, tz, transactions, tax_declarations, quarterly_declarations,
                   nextId, outcome, runs, serviceVars>>

NextNotifications ==
    \/ ProcessScheduledNotifications
    \/ TickNotifications

SpecNotifications == InitNotifications /\ [][NextNotifications]_vars

\* C29: across the runs of processScheduledNotifications each notification is
\* emailed at most once, also when the update that marks it sent returns an
\* error.
C29_EmailedAtMostOnce ==
    \A k \in DOMAIN notifications :
        Cardinality({ i \in DOMAIN emails : emails[i] = notifications[k].id }) <= 1

(***************************************************************************)
(* taxDeclarations.ts: getAnnualTaxSummary                                 *)
(***************************************************************************)
\* .order('created_at', { ascending: false }): latest insert first
RECURSIVE NewestFirst(_)
NewestFirst(rows) ==
    IF rows = <<>> THEN <<>>
    ELSE <<rows[Len(rows)]>> \o NewestFirst(SubSeq(rows, 1, Len(rows) - 1))

\* getUserTaxDeclarations(userId, { year })
getUserTaxDeclarations(table, userId, year) ==
    NewestFirst(SelectSeq(table, LAMBDA row : row.user_id = userId /\ row.year = year))

\* declarations.filter(d => d.status === status).length
CountStatus(declarations, status) ==
    Len(SelectSeq(declarations, LAMBDA row : row.status = status))

\* the forEach of getAnnualTaxSummary from declaration i on
RECURSIVE SummaryFrom(_, _, _)
SummaryFrom(declarations, i, summary) ==
    IF i > Len(declarations) THEN summary
    ELSE LET declaration == declarations[i]
             totals == [summary EXCEPT
                           !.total_revenue = RAdd(@, declaration.revenue),
                           !.total_tax = RAdd(@, declaration.tax_amount)]
         IN  SummaryFrom(declarations, i + 1,
                 CASE declaration.declaration_type = "urssaf" ->
                          [totals EXCEPT !.urssaf_contributions =
                                             RAdd(@, declaration.tax_amount)]
                   [] declaration.declaration_type = "income_tax" ->
                          [totals EXCEPT !.income_tax = RAdd(@, declaration.tax_amount)]
                   [] declaration.declaration_type = "cfe" ->
                          [totals EXCEPT !.cfe_tax = RAdd(@, declaration.tax_amount)]
                   [] OTHER -> totals)

\* getAnnualTaxSummary(userId, year)
getAnnualTaxSummary(table, userId, year) ==
    LET declarations == getUserTaxDeclarations(table, userId, year)
    IN  SummaryFrom(declarations, 1,
            [total_revenue |-> Num(0),
             total_tax |-> Num(0),
             urssaf_contributions |-> Num(0),
             income_tax |-> Num(0),
             cfe_tax |-> Num(0),
             declarations_count |-> Len(declarations),
             pending_declarations |-> CountStatus(declarations, "draft"),
             submitted_declarations |-> CountStatus(declarations, "submitted"),
             paid_declarations |-> CountStatus(declarations, "paid")])

\* the store holds the declarations of exactly one quarterly
\* generateAnnualTaxDeclarations run: four URSSAF rows, income tax and CFE
SingleTaxRun == Len(tax_declarations) = Len(TAX_CALENDAR_2024.quarterly_urssaf) + 2

\* C30: after a single generateAnnualTaxDeclarations run on a store without
\* declarations, the annual summary of that user and year reports the user's
\* income of the year as total_revenue, total_tax as the sum of its three
\* parts and declarations_count as the sum of the three status counts.
C30_AnnualSummary ==
    SingleTaxRun =>
        \A summary \in { getAnnualTaxSummary(tax_declarations,
                                             tax_declarations[1].user_id,
                                             tax_declarations[1].year) } :
            /\ summary.total_revenue
                   = IncomeWithin(transactions, 1, tax_declarations[1].user_id,
                                  Date(tax_declarations[1].year, 1, 1),
                                  Date(tax_declarations[1].year, 12, 31))
            /\ summary.total_tax = RAdd(summary.urssaf_contributions,
                                        RAdd(summary.income_tax, summary.cfe_tax))
            /\ summary.declarations_count
                   = summary.pending_declarations + summary.submitted_declarations
                     + summary.paid_declarations

\* the two identities of the summary that do not involve total_revenue
C30_TaxAndCountIdentities ==
    SingleTaxRun =>
        \A summary \in { getAnnualTaxSummary(tax_declarations,
                                             tax_declarations[1].user_id,
                                             tax_declarations[1].year) } :
            /\ summary.total_tax = RAdd(summary.urssaf_contributions,
                                        RAdd(summary.income_tax, summary.cfe_tax))
            /\ summary.declarations_count
                   = summary.pending_declarations + summary.submitted_declarations
                     + summary.paid_declarations

====
